---------------------------- MODULE Spec2Model ----------------------------
(***************************************************************************)
(* Runtime-lifecycle coordinator of the container engine:                  *)
(*   - libcontainerd/client_windows.go : client.Create, client.Signal      *)
(*   - daemon/monitor.go               : Daemon.StateChanged,              *)
(*                                       Daemon.AttachStreams              *)
(* The specifications share the variables; each drives one component and   *)
(* leaves the state of the others untouched.                               *)
(*   SpecCreate  : calls of client.Create                                  *)
(*   SpecCreateFair : the same, a running call being scheduled fairly      *)
(*   SpecSignal  : concurrent calls of client.Signal                       *)
(*   SpecMonitor : deliveries of Daemon.StateChanged, one after the other  *)
(*   SpecLocked  : concurrent deliveries of Exit, Restart and ExitProcess  *)
(*   SpecRestart : concurrent deliveries of Restart                        *)
(*   SpecAttach  : calls of Daemon.AttachStreams and their copy tasks      *)
(*   SpecPorts   : the port-binding translation of client.Create           *)
(*   SpecUnsupported : the operations the Windows client does not implement *)
(*   SpecDrain   : AttachStreams and its copy tasks beside the dispatcher's *)
(*                 Exit and ExitProcess handling, all scheduled fairly      *)
(***************************************************************************)
EXTENDS Integers, Sequences, FiniteSets, TLC

VARIABLES
    IsTP4,          \* hcsshim.IsTP4(): the platform needs the creation retry
    create,         \* the running client.Create call: its locals and its effects
    clntContainers, \* client's handle table: id -> systemPid, or NoContainer
    clntLocks,      \* client's per-container-id locks: id -> holder, or NoHolder
    signal,         \* per caller: the running client.Signal call
    GOOS,           \* runtime.GOOS of the daemon
    containers,     \* daemon.containers: ids registered in the daemon
    execCommands,   \* daemon.execCommands: exec ids in the daemon's own store
    ctr,            \* per id: the container's state fields
    ctrLock,        \* per id: holder of the container's mutex
    disk,           \* per id: the state last written by ToDisk
    execs,          \* per exec id: the exec session's configuration
    handler,        \* per dispatcher task: the running StateChanged call
    nEvents,        \* number of lifecycle events delivered so far
    attach,         \* the AttachStreams calls so far, with their pipes and tasks
    config,         \* per container or exec id: stdin source and terminal settings
    nat,            \* the port-binding translation of client.Create: input and result
    clientCall      \* the last call of an operation the Windows client lacks

vars == << IsTP4, create, clntContainers, clntLocks, signal,
           GOOS, containers, execCommands, ctr, ctrLock, disk, execs, handler,
           nEvents, attach, config, nat, clientCall >>

createVars  == << IsTP4, create >>
signalVars  == << clntContainers, clntLocks, signal >>
attachVars  == << attach, config >>
clientVars  == << nat, clientCall >>
monitorVars ==
    << GOOS, containers, execCommands, ctr, ctrLock, disk, execs, handler, nEvents >>

-----------------------------------------------------------------------------
(* Identifiers *)

ContainerIds == {"c1", "c2"}

-----------------------------------------------------------------------------
(* Errors.  A Go error value is a record: kind "nil" is the nil error,     *)
(* kind "HcsError" is *hcsshim.HcsError carrying the Win32 code Err, kind  *)
(* "error" is any other error type.                                        *)

Nil == [kind |-> "nil", Err |-> "none"]

HcsError(code) == [kind |-> "HcsError", Err |-> code]

OtherError(text) == [kind |-> "error", Err |-> text]

\* The Win32 codes named by the retry workaround, and one that is not.
Win32Codes ==
    { "ERROR_NOT_FOUND", "ERROR_FILE_NOT_FOUND", "ErrorNoNetwork",
      "ErrorBadPathname", "CoEClassstring", "ErrorInvalidObject",
      "ERROR_ACCESS_DENIED" }

\* What one hcsshim.CreateComputeSystem call can return.
CreateResults ==
    {Nil} \cup {HcsError(c) : c \in Win32Codes} \cup {OtherError("not an HcsError")}

\* What container.start can return.
StartResults == {Nil, OtherError("start failed")}

\* What the translation of the spec can fail with before the runtime is
\* called: hcsshim.NameToGuid on a layer, the port bindings, json.Marshal.
TranslateResults ==
    { Nil,
      OtherError("NameToGuid failed"),
      OtherError("invalid protocol"),
      OtherError("more than one host port"),
      OtherError("host IP addresses"),
      OtherError("invalid container port"),
      OtherError("invalid internal port"),
      OtherError("port is not in allowed range"),
      OtherError("json.Marshal failed") }

-----------------------------------------------------------------------------
(* client.Create  (libcontainerd/client_windows.go)                        *)

\* Mutant: the retry bound is one short.
maxAttemptsOneShort == 5 - 1

maxAttempts == 5

NoId == "none"

\* The state of the client before and between Create calls.
CreateIdle ==
    [ pc         |-> "idle",
      id         |-> NoId,
      err        |-> Nil,     \* the function-level variable err
      i          |-> 0,       \* the retry loop's index
      results    |-> << >>,   \* what each CreateComputeSystem call returned
      sleeps     |-> 0,       \* time.Sleep(50ms) calls
      created    |-> FALSE,   \* a CreateComputeSystem call succeeded
      container  |-> FALSE,   \* newContainer built the handle
      startCalls |-> 0,       \* container.start calls
      startRet   |-> Nil,     \* what container.start returned
      deleted    |-> 0,       \* c.deleteContainer(id) calls
      ret        |-> Nil ]    \* what Create returned

\* The six codes the workaround retries on: the negation of the condition
\* under which the loop returns the error at once.
IsTransient(herr) ==
    ~ ( /\ herr.Err # "ERROR_NOT_FOUND"
        /\ herr.Err # "ERROR_FILE_NOT_FOUND"
        /\ herr.Err # "ErrorNoNetwork"
        /\ herr.Err # "ErrorBadPathname"
        /\ herr.Err # "CoEClassstring"
        /\ herr.Err # "ErrorInvalidObject" )

\* Mutant: the deferred deleteContainer is in place from the entry on and
\* sees the translation's error.
CreateCallCleansUp(id, xerr) ==
    /\ create.pc \in {"idle", "done"}
    /\ create' = IF xerr # Nil
                   THEN [CreateIdle EXCEPT !.pc = "done", !.id = id, !.ret = xerr,
                                           !.err = xerr, !.deleted = 1]
                   ELSE [CreateIdle EXCEPT !.pc = "create", !.id = id]
    /\ UNCHANGED << IsTP4, signalVars, monitorVars, attachVars, clientVars >>

\* Create is entered: the spec is translated into the runtime's configuration
\* (layers, mounts, port bindings, json.Marshal).  A failure returns at once;
\* otherwise err holds json.Marshal's nil.
CreateCall(id, xerr) ==
    /\ create.pc \in {"idle", "done"}
    /\ create' = IF xerr # Nil
                   THEN [CreateIdle EXCEPT !.pc = "done", !.id = id, !.ret = xerr]
                   ELSE [CreateIdle EXCEPT !.pc = "create", !.id = id]
    /\ UNCHANGED << IsTP4, signalVars, monitorVars, attachVars, clientVars >>

\* Not TP4: one CreateComputeSystem call; its error is held by the if
\* statement's own err, the function-level err stays nil.
CreateNotTP4(res) ==
    /\ create.pc = "create"
    /\ ~IsTP4
    /\ create' = IF res # Nil
                   THEN [create EXCEPT !.results = Append(@, res),
                                       !.ret = res,
                                       !.pc = "done"]
                   ELSE [create EXCEPT !.results = Append(@, res),
                                       !.created = TRUE,
                                       !.pc = "newContainer"]
    /\ UNCHANGED << IsTP4, signalVars, monitorVars, attachVars, clientVars >>

\* Mutant: the break after a successful attempt is missing.
CreateTP4AttemptNoBreak(res) ==
    /\ create.pc = "create"
    /\ IsTP4
    /\ create.i < maxAttempts
    /\ create' =
         IF res = Nil
           THEN [create EXCEPT !.results = Append(@, res), !.err = res,
                               !.created = TRUE, !.i = @ + 1]
         ELSE IF res.kind = "HcsError"
           THEN IF ~IsTransient(res)
                  THEN [create EXCEPT !.results = Append(@, res), !.err = res,
                                      !.ret = res, !.pc = "done"]
                  ELSE [create EXCEPT !.results = Append(@, res), !.err = res,
                                      !.sleeps = @ + 1, !.i = @ + 1]
           ELSE [create EXCEPT !.results = Append(@, res), !.err = res,
                               !.i = @ + 1]
    /\ UNCHANGED << IsTP4, signalVars, monitorVars, attachVars, clientVars >>

\* TP4: one iteration of the retry loop.
CreateTP4Attempt(res) ==
    /\ create.pc = "create"
    /\ IsTP4
    /\ create.i < maxAttempts
    /\ create' =
         IF res = Nil
           THEN \* break
                [create EXCEPT !.results = Append(@, res), !.err = res,
                               !.created = TRUE, !.pc = "newContainer"]
         ELSE IF res.kind = "HcsError"
           THEN IF ~IsTransient(res)
                  THEN [create EXCEPT !.results = Append(@, res), !.err = res,
                                      !.ret = res, !.pc = "done"]
                  ELSE [create EXCEPT !.results = Append(@, res), !.err = res,
                                      !.sleeps = @ + 1, !.i = @ + 1]
           ELSE \* not an *hcsshim.HcsError: neither return nor sleep
                [create EXCEPT !.results = Append(@, res), !.err = res,
                               !.i = @ + 1]
    /\ UNCHANGED << IsTP4, signalVars, monitorVars, attachVars, clientVars >>

\* TP4: the loop condition i < maxAttempts is false; control falls out of
\* the loop with err as the last attempt left it.
CreateTP4LoopEnd ==
    /\ create.pc = "create"
    /\ IsTP4
    /\ ~(create.i < maxAttempts)
    /\ create' = [create EXCEPT !.pc = "newContainer"]
    /\ UNCHANGED << IsTP4, signalVars, monitorVars, attachVars, clientVars >>

\* container := c.newContainer(id, spec.Process, options...)
CreateNewContainer ==
    /\ create.pc = "newContainer"
    /\ create' = [create EXCEPT !.container = TRUE, !.pc = "start"]
    /\ UNCHANGED << IsTP4, signalVars, monitorVars, attachVars, clientVars >>

\* The deferred function: deleteContainer when the function-level err is
\* not nil.  The result of container.start is not assigned to err.
CreateDeferred(c) ==
    IF c.err # Nil THEN [c EXCEPT !.deleted = @ + 1] ELSE c

\* return container.start(), then the deferred function.
CreateStart(res) ==
    /\ create.pc = "start"
    /\ create' = CreateDeferred([create EXCEPT !.startCalls = @ + 1,
                                               !.startRet = res,
                                               !.ret = res,
                                               !.pc = "done"])
    /\ UNCHANGED << IsTP4, signalVars, monitorVars, attachVars, clientVars >>

CreateNext ==
    \/ \E id \in ContainerIds, xerr \in TranslateResults : CreateCall(id, xerr)
    \/ \E res \in CreateResults : CreateNotTP4(res)
    \/ \E res \in CreateResults : CreateTP4Attempt(res)
    \/ CreateTP4LoopEnd
    \/ CreateNewContainer
    \/ \E res \in StartResults : CreateStart(res)

-----------------------------------------------------------------------------
(* client.Signal  (libcontainerd/client_windows.go)                        *)

SIGKILL == 9

\* SIGINT, SIGKILL, SIGTERM
Signals == {2, SIGKILL, 15}

SigCallers == {"s1", "s2"}

SystemPids == {4, 8}

NoContainer == 0 - 1

NoHolder == "free"

ErrNotFound == OtherError("invalid container")

Pending == OtherError("call has not returned")

SignalIdle ==
    [ pc    |-> "idle",
      id    |-> NoId,
      sig   |-> 0,
      cont  |-> NoContainer,  \* cont.systemPid of the handle found
      calls |-> << >>,        \* the runtime calls this Signal call has issued
      ret   |-> Pending ]

\* c.getContainer(id): the handle registered for id, or an error.
getContainer(id) ==
    IF clntContainers[id] # NoContainer
      THEN [cont |-> clntContainers[id], err |-> Nil]
      ELSE [cont |-> NoContainer, err |-> ErrNotFound]

\* The runtime calls, as recorded in calls.
TerminateComputeSystem(id, ok) ==
    [op |-> "TerminateComputeSystem", id |-> id, pid |-> NoContainer, ok |-> ok]

TerminateProcessInComputeSystem(id, pid, ok) ==
    [op |-> "TerminateProcessInComputeSystem", id |-> id, pid |-> pid, ok |-> ok]

ShutdownComputeSystem(id, ok) ==
    [op |-> "ShutdownComputeSystem", id |-> id, pid |-> NoContainer, ok |-> ok]

\* A caller enters Signal(id, sig).
SignalCall(t, id, sig) ==
    /\ signal[t].pc \in {"idle", "done"}
    /\ signal' = [signal EXCEPT ![t] = [SignalIdle EXCEPT !.pc = "lock",
                                                          !.id = id,
                                                          !.sig = sig]]
    /\ UNCHANGED << clntContainers, clntLocks >>
    /\ UNCHANGED << createVars, monitorVars, attachVars, clientVars >>

\* c.lock(id); defer c.unlock(id)
SignalLock(t) ==
    /\ signal[t].pc = "lock"
    /\ clntLocks[signal[t].id] = NoHolder
    /\ clntLocks' = [clntLocks EXCEPT ![signal[t].id] = t]
    /\ signal' = [signal EXCEPT ![t].pc = "getContainer"]
    /\ UNCHANGED clntContainers
    /\ UNCHANGED << createVars, monitorVars, attachVars, clientVars >>

\* Mutant: the not-found return does not release the lock.
SignalGetContainerKeepsLock(t) ==
    /\ signal[t].pc = "getContainer"
    /\ LET r == getContainer(signal[t].id) IN
         IF r.err # Nil
           THEN signal' = [signal EXCEPT ![t].ret = r.err, ![t].pc = "done"]
           ELSE signal' = [signal EXCEPT ![t].cont = r.cont, ![t].pc = "kill"]
    /\ UNCHANGED << clntContainers, clntLocks >>
    /\ UNCHANGED << createVars, monitorVars, attachVars, clientVars >>

\* if cont, err = c.getContainer(id); err != nil { return err }
SignalGetContainer(t) ==
    /\ signal[t].pc = "getContainer"
    /\ LET r == getContainer(signal[t].id) IN
         IF r.err # Nil
           THEN /\ signal' = [signal EXCEPT ![t].ret = r.err, ![t].pc = "done"]
                /\ clntLocks' = [clntLocks EXCEPT ![signal[t].id] = NoHolder]
           ELSE /\ signal' = [signal EXCEPT ![t].cont = r.cont, ![t].pc = "kill"]
                /\ UNCHANGED clntLocks
    /\ UNCHANGED clntContainers
    /\ UNCHANGED << createVars, monitorVars, attachVars, clientVars >>

\* Mutant: the force-kill path goes on to the shutdown request.
SignalTerminateThenShutdown(t, ok) ==
    /\ signal[t].pc = "kill"
    /\ signal[t].sig = SIGKILL
    /\ signal' = [signal EXCEPT
                    ![t].calls = Append(@, TerminateComputeSystem(signal[t].id, ok)),
                    ![t].pc = "shutdown"]
    /\ UNCHANGED << clntContainers, clntLocks >>
    /\ UNCHANGED << createVars, monitorVars, attachVars, clientVars >>

\* sig == SIGKILL: terminate the compute system; a failure is logged.
SignalTerminate(t, ok) ==
    /\ signal[t].pc = "kill"
    /\ signal[t].sig = SIGKILL
    /\ signal' = [signal EXCEPT
                    ![t].calls = Append(@, TerminateComputeSystem(signal[t].id, ok)),
                    ![t].pc = "return"]
    /\ UNCHANGED << clntContainers, clntLocks >>
    /\ UNCHANGED << createVars, monitorVars, attachVars, clientVars >>

\* Mutant: a failed process termination skips the shutdown request.
SignalTerminateProcessOrGiveUp(t, ok) ==
    /\ signal[t].pc = "kill"
    /\ signal[t].sig # SIGKILL
    /\ signal' = [signal EXCEPT
                    ![t].calls = Append(@, TerminateProcessInComputeSystem(
                                             signal[t].id, signal[t].cont, ok)),
                    ![t].pc = IF ok THEN "shutdown" ELSE "return"]
    /\ UNCHANGED << clntContainers, clntLocks >>
    /\ UNCHANGED << createVars, monitorVars, attachVars, clientVars >>

\* Any other signal: terminate the tracked process; a failure is logged and
\* err is set back to nil.
SignalTerminateProcess(t, ok) ==
    /\ signal[t].pc = "kill"
    /\ signal[t].sig # SIGKILL
    /\ signal' = [signal EXCEPT
                    ![t].calls = Append(@, TerminateProcessInComputeSystem(
                                             signal[t].id, signal[t].cont, ok)),
                    ![t].pc = "shutdown"]
    /\ UNCHANGED << clntContainers, clntLocks >>
    /\ UNCHANGED << createVars, monitorVars, attachVars, clientVars >>

\* ... then shut the compute system down; a failure is logged.
SignalShutdown(t, ok) ==
    /\ signal[t].pc = "shutdown"
    /\ signal' = [signal EXCEPT
                    ![t].calls = Append(@, ShutdownComputeSystem(signal[t].id, ok)),
                    ![t].pc = "return"]
    /\ UNCHANGED << clntContainers, clntLocks >>
    /\ UNCHANGED << createVars, monitorVars, attachVars, clientVars >>

\* Mutant: the failure of the last runtime call is returned.
SignalReturnFailure(t) ==
    /\ signal[t].pc = "return"
    /\ signal' = [signal EXCEPT
                    ![t].ret = IF signal[t].calls[Len(signal[t].calls)].ok
                                 THEN Nil ELSE OtherError("runtime call failed"),
                    ![t].pc = "done"]
    /\ clntLocks' = [clntLocks EXCEPT ![signal[t].id] = NoHolder]
    /\ UNCHANGED clntContainers
    /\ UNCHANGED << createVars, monitorVars, attachVars, clientVars >>

\* return nil, and the deferred c.unlock(id).
SignalReturn(t) ==
    /\ signal[t].pc = "return"
    /\ signal' = [signal EXCEPT ![t].ret = Nil, ![t].pc = "done"]
    /\ clntLocks' = [clntLocks EXCEPT ![signal[t].id] = NoHolder]
    /\ UNCHANGED clntContainers
    /\ UNCHANGED << createVars, monitorVars, attachVars, clientVars >>

SignalNext ==
    \/ \E t \in SigCallers, id \in ContainerIds, sig \in Signals : SignalCall(t, id, sig)
    \/ \E t \in SigCallers : SignalLock(t)
    \/ \E t \in SigCallers : SignalGetContainer(t)
    \/ \E t \in SigCallers, ok \in BOOLEAN : SignalTerminate(t, ok)
    \/ \E t \in SigCallers, ok \in BOOLEAN : SignalTerminateProcess(t, ok)
    \/ \E t \in SigCallers, ok \in BOOLEAN : SignalShutdown(t, ok)
    \/ \E t \in SigCallers : SignalReturn(t)

-----------------------------------------------------------------------------
(* Daemon.StateChanged  (daemon/monitor.go)                                *)

\* Lifecycle events delivered in one run of the model.
MaxEvents == 2

\* Stream-copy tasks in flight on one stream configuration at the start.
MaxCopies == 1

Handlers == {"h1", "h2"}

\* The task that delivers events one after the other.
Dispatcher == {"h1"}

\* Ids registered in daemon.containers; the other ids are unknown to it.
RegisteredIds == {"c1"}

ExecIds == {"e1", "e2"}

\* Exec sessions in a registered container's ExecCommands at the start.
LaunchedExecs == {"e1"}

ExitCodes == {0, 3}

NoCode == 0 - 1

EventStates ==
    { "StateStart", "StateRestore", "StateExit", "StateExitProcess",
      "StateRestart", "StateOOM", "StatePause", "StateResume" }

\* libcontainerd.StateInfo; a field a variant does not carry holds its zero value.
StateInfo(state, processID, pid, exitCode) ==
    [State |-> state, ProcessID |-> processID, Pid |-> pid, ExitCode |-> exitCode]

Events ==
    {StateInfo(s, "", 0, x) : s \in {"StateExit", "StateRestart"}, x \in ExitCodes}
    \cup {StateInfo("StateExitProcess", p, 0, x) : p \in ExecIds, x \in ExitCodes}
    \cup {StateInfo(s, "", p, 0) : s \in {"StateStart", "StateRestore"}, p \in SystemPids}
    \cup {StateInfo(s, "", 0, 0) : s \in {"StateOOM", "StatePause", "StateResume"}}

ErrNoSuchContainer == OtherError("no such container")

ErrOOMOnWindows == OtherError("Received StateOOM from libcontainerd on Windows")

ErrToDisk == OtherError("ToDisk failed")

\* One step of a StateChanged call, as recorded in its trace.
Step(op) == [op |-> op, code |-> NoCode]

\* The c.ToDisk() step, with its result.
ToDiskStep(ok) == Step(IF ok THEN "ToDisk" ELSE "ToDisk failed")

\* daemon.LogContainerEventWithAttributes(c, action, {"exitCode": code})
LogEvent(action, code) == [op |-> action, code |-> code]

HandlerIdle ==
    [ pc    |-> "idle",
      id    |-> NoId,
      e     |-> StateInfo("StateStart", "", 0, 0),
      trace |-> << >>,
      ret   |-> Pending ]

\* A container as constructed and registered, before its first event.
NewContainer(manuallyStopped, copies) ==
    [ Running                |-> FALSE,
      Restarting             |-> FALSE,
      Paused                 |-> FALSE,
      Pid                    |-> 0,
      ExitCode               |-> 0,
      RestartCount           |-> 0,
      HasBeenManuallyStopped |-> manuallyStopped,
      Initial                |-> FALSE,  \* last SetRunning was a fresh start
      LogDriver              |-> TRUE,   \* transient: streams and log driver set up
      Resources              |-> TRUE,   \* runtime-side resources held
      ExecCommands           |-> LaunchedExecs,
      copies                 |-> copies ]   \* StreamConfig's WaitGroup counter

\* An exec session as launched.
NewExec(copies) ==
    [ Running |-> TRUE, ExitCode |-> NoCode, closed |-> FALSE, copies |-> copies ]

\* platformConstructExitStatus(e)
platformConstructExitStatus(e) == [ExitCode |-> e.ExitCode]

\* c.Reset(false): the runtime-specific transient fields are reset.
Reset(c) == [c EXCEPT !.LogDriver = FALSE]

\* c.SetStopped(exitStatus)
SetStopped(c, exitStatus) ==
    [c EXCEPT !.Running = FALSE, !.Restarting = FALSE, !.Pid = 0,
              !.ExitCode = exitStatus.ExitCode]

\* c.SetRestarting(exitStatus): restarting, not terminally stopped.
SetRestarting(c, exitStatus) ==
    [c EXCEPT !.Running = TRUE, !.Restarting = TRUE, !.Pid = 0,
              !.ExitCode = exitStatus.ExitCode]

\* c.SetRunning(pid, initial)
SetRunning(c, pid, initial) ==
    [c EXCEPT !.Running = TRUE, !.Restarting = FALSE, !.Pid = pid,
              !.Initial = initial]

\* daemon.Cleanup(c): the runtime-side resources are released.
Cleanup(c) == [c EXCEPT !.Resources = FALSE]

\* The handler's own steps so far, extended by one.
Did(h, step) == [handler EXCEPT ![h].trace = Append(@, step)]

\* The handler returns r; its deferred c.Unlock(), if any, runs in the same step.
Return(hs, h, r) == [hs EXCEPT ![h].ret = r, ![h].pc = "done"]

\* The branch of the switch an event state selects.
Branch(state) ==
    CASE state = "StateOOM"         -> "oom"
      [] state = "StateExit"        -> "exitLock"
      [] state = "StateRestart"     -> "restartLock"
      [] state = "StateExitProcess" -> "execLock"
      [] state = "StateStart"       -> "setRunning"
      [] state = "StateRestore"     -> "setRunning"
      [] state = "StatePause"       -> "pause"
      [] state = "StateResume"      -> "resume"

\* The runtime client calls StateChanged(id, e).
StateChanged(h, id, e) ==
    /\ handler[h].pc \in {"idle", "done"}
    /\ nEvents < MaxEvents
    /\ nEvents' = nEvents + 1
    /\ handler' = [handler EXCEPT ![h] = [HandlerIdle EXCEPT !.pc = "get",
                                                             !.id = id,
                                                             !.e = e]]
    /\ UNCHANGED << GOOS, containers, execCommands, ctr, ctrLock, disk, execs >>
    /\ UNCHANGED << createVars, signalVars, attachVars, clientVars >>

\* Mutant: the nil check on the looked-up container is missing.
ContainersGetUnchecked(h) ==
    /\ handler[h].pc = "get"
    /\ handler' = [handler EXCEPT ![h].pc = Branch(handler[h].e.State)]
    /\ UNCHANGED << GOOS, containers, execCommands, ctr, ctrLock, disk, execs, nEvents >>
    /\ UNCHANGED << createVars, signalVars, attachVars, clientVars >>

\* c := daemon.containers.Get(id); nil returns "no such container";
\* otherwise the switch on e.State.
ContainersGet(h) ==
    /\ handler[h].pc = "get"
    /\ handler' = IF handler[h].id \notin containers
                    THEN Return(handler, h, ErrNoSuchContainer)
                    ELSE [handler EXCEPT ![h].pc = Branch(handler[h].e.State)]
    /\ UNCHANGED << GOOS, containers, execCommands, ctr, ctrLock, disk, execs, nEvents >>
    /\ UNCHANGED << createVars, signalVars, attachVars, clientVars >>

\* Mutant: the platform check is missing.
HandleOOMAnyPlatform(h) ==
    /\ handler[h].pc = "oom"
    /\ handler' = Return(Did(h, LogEvent("oom", NoCode)), h, Nil)
    /\ UNCHANGED << GOOS, containers, execCommands, ctr, ctrLock, disk, execs, nEvents >>
    /\ UNCHANGED << createVars, signalVars, attachVars, clientVars >>

\* case StateOOM
HandleOOM(h) ==
    /\ handler[h].pc = "oom"
    /\ handler' = IF GOOS = "windows"
                    THEN Return(handler, h, ErrOOMOnWindows)
                    ELSE Return(Did(h, LogEvent("oom", NoCode)), h, Nil)
    /\ UNCHANGED << GOOS, containers, execCommands, ctr, ctrLock, disk, execs, nEvents >>
    /\ UNCHANGED << createVars, signalVars, attachVars, clientVars >>

\* Mutant: the lock is taken whoever holds it.
LockNotExclusive(h, at, next) ==
    /\ handler[h].pc = at
    /\ ctrLock' = [ctrLock EXCEPT ![handler[h].id] = h]
    /\ handler' = [Did(h, Step("Lock")) EXCEPT ![h].pc = next]
    /\ UNCHANGED << GOOS, containers, execCommands, ctr, disk, execs, nEvents >>
    /\ UNCHANGED << createVars, signalVars, attachVars, clientVars >>

\* c.Lock(); defer c.Unlock()   (StateExit, StateRestart, StateExitProcess)
Lock(h, at, next) ==
    /\ handler[h].pc = at
    /\ ctrLock[handler[h].id] = NoHolder
    /\ ctrLock' = [ctrLock EXCEPT ![handler[h].id] = h]
    /\ handler' = [Did(h, Step("Lock")) EXCEPT ![h].pc = next]
    /\ UNCHANGED << GOOS, containers, execCommands, ctr, disk, execs, nEvents >>
    /\ UNCHANGED << createVars, signalVars, attachVars, clientVars >>

\* The deferred c.Unlock() of a handler that holds the lock.
Unlocked(h) ==
    [ctrLock EXCEPT ![handler[h].id] = IF @ = h THEN NoHolder ELSE @]

\* c.ToDisk(): the container's state is written, or the write fails.
ToDisk(id, ok) ==
    IF ok THEN [disk EXCEPT ![id] = ctr[id]] ELSE disk

(* case StateExit *)

ExitLock(h) == Lock(h, "exitLock", "exitWait")

\* Mutant: c.Wait() returns at once.
ExitWaitUnguarded(h) ==
    /\ handler[h].pc = "exitWait"
    /\ handler' = [Did(h, Step("Wait")) EXCEPT ![h].pc = "exitReset"]
    /\ UNCHANGED << GOOS, containers, execCommands, ctr, ctrLock, disk, execs, nEvents >>
    /\ UNCHANGED << createVars, signalVars, attachVars, clientVars >>

\* c.Wait(): blocks until the stream-copy counter is zero.
ExitWait(h) ==
    /\ handler[h].pc = "exitWait"
    /\ ctr[handler[h].id].copies = 0
    /\ handler' = [Did(h, Step("Wait")) EXCEPT ![h].pc = "exitReset"]
    /\ UNCHANGED << GOOS, containers, execCommands, ctr, ctrLock, disk, execs, nEvents >>
    /\ UNCHANGED << createVars, signalVars, attachVars, clientVars >>

ExitReset(h) ==
    /\ handler[h].pc = "exitReset"
    /\ ctr' = [ctr EXCEPT ![handler[h].id] = Reset(@)]
    /\ handler' = [Did(h, Step("Reset")) EXCEPT ![h].pc = "exitSetStopped"]
    /\ UNCHANGED << GOOS, containers, execCommands, ctrLock, disk, execs, nEvents >>
    /\ UNCHANGED << createVars, signalVars, attachVars, clientVars >>

\* Mutant: marking the container stopped also clears its paused flag.
ExitSetStoppedUnpauses(h) ==
    /\ handler[h].pc = "exitSetStopped"
    /\ ctr' = [ctr EXCEPT ![handler[h].id] =
                 [SetStopped(@, platformConstructExitStatus(handler[h].e))
                    EXCEPT !.Paused = FALSE]]
    /\ handler' = [Did(h, Step("SetStopped")) EXCEPT ![h].pc = "exitLogDie"]
    /\ UNCHANGED << GOOS, containers, execCommands, ctrLock, disk, execs, nEvents >>
    /\ UNCHANGED << createVars, signalVars, attachVars, clientVars >>

ExitSetStopped(h) ==
    /\ handler[h].pc = "exitSetStopped"
    /\ ctr' = [ctr EXCEPT ![handler[h].id] =
                 SetStopped(@, platformConstructExitStatus(handler[h].e))]
    /\ handler' = [Did(h, Step("SetStopped")) EXCEPT ![h].pc = "exitLogDie"]
    /\ UNCHANGED << GOOS, containers, execCommands, ctrLock, disk, execs, nEvents >>
    /\ UNCHANGED << createVars, signalVars, attachVars, clientVars >>

ExitLogDie(h) ==
    /\ handler[h].pc = "exitLogDie"
    /\ handler' = [Did(h, LogEvent("die", handler[h].e.ExitCode))
                     EXCEPT ![h].pc = "exitCleanup"]
    /\ UNCHANGED << GOOS, containers, execCommands, ctr, ctrLock, disk, execs, nEvents >>
    /\ UNCHANGED << createVars, signalVars, attachVars, clientVars >>

ExitCleanup(h) ==
    /\ handler[h].pc = "exitCleanup"
    /\ ctr' = [ctr EXCEPT ![handler[h].id] = Cleanup(@)]
    /\ handler' = [Did(h, Step("Cleanup")) EXCEPT ![h].pc = "exitToDisk"]
    /\ UNCHANGED << GOOS, containers, execCommands, ctrLock, disk, execs, nEvents >>
    /\ UNCHANGED << createVars, signalVars, attachVars, clientVars >>

\* Mutant: the result of ToDisk is dropped and nil returned.
ExitToDiskDropped(h, ok) ==
    /\ handler[h].pc = "exitToDisk"
    /\ disk' = ToDisk(handler[h].id, ok)
    /\ handler' = Return(Did(h, ToDiskStep(ok)), h, Nil)
    /\ ctrLock' = Unlocked(h)
    /\ UNCHANGED << GOOS, containers, execCommands, ctr, execs, nEvents >>
    /\ UNCHANGED << createVars, signalVars, attachVars, clientVars >>

\* Mutant: the unlock is explicit and follows a successful write only.
ExitToDiskUnlockOnSuccess(h, ok) ==
    /\ handler[h].pc = "exitToDisk"
    /\ disk' = ToDisk(handler[h].id, ok)
    /\ handler' = Return(Did(h, ToDiskStep(ok)), h, IF ok THEN Nil ELSE ErrToDisk)
    /\ ctrLock' = IF ok THEN Unlocked(h) ELSE ctrLock
    /\ UNCHANGED << GOOS, containers, execCommands, ctr, execs, nEvents >>
    /\ UNCHANGED << createVars, signalVars, attachVars, clientVars >>

\* return c.ToDisk()
ExitToDisk(h, ok) ==
    /\ handler[h].pc = "exitToDisk"
    /\ disk' = ToDisk(handler[h].id, ok)
    /\ handler' = Return(Did(h, ToDiskStep(ok)), h, IF ok THEN Nil ELSE ErrToDisk)
    /\ ctrLock' = Unlocked(h)
    /\ UNCHANGED << GOOS, containers, execCommands, ctr, execs, nEvents >>
    /\ UNCHANGED << createVars, signalVars, attachVars, clientVars >>

(* case StateRestart *)

\* Mutant: the Restart branch runs without the lock.
RestartLockSkipped(h) ==
    /\ handler[h].pc = "restartLock"
    /\ handler' = [Did(h, Step("Lock")) EXCEPT ![h].pc = "restartReset"]
    /\ UNCHANGED << GOOS, containers, execCommands, ctr, ctrLock, disk, execs, nEvents >>
    /\ UNCHANGED << createVars, signalVars, attachVars, clientVars >>

RestartLock(h) == Lock(h, "restartLock", "restartReset")

\* Mutant: the Restart branch cleans up as the Exit branch does.
RestartResetAndCleanup(h) ==
    /\ handler[h].pc = "restartReset"
    /\ ctr' = [ctr EXCEPT ![handler[h].id] = Cleanup(Reset(@))]
    /\ handler' = [Did(h, Step("Reset")) EXCEPT ![h].pc = "restartCount"]
    /\ UNCHANGED << GOOS, containers, execCommands, ctrLock, disk, execs, nEvents >>
    /\ UNCHANGED << createVars, signalVars, attachVars, clientVars >>

RestartReset(h) ==
    /\ handler[h].pc = "restartReset"
    /\ ctr' = [ctr EXCEPT ![handler[h].id] = Reset(@)]
    /\ handler' = [Did(h, Step("Reset")) EXCEPT ![h].pc = "restartCount"]
    /\ UNCHANGED << GOOS, containers, execCommands, ctrLock, disk, execs, nEvents >>
    /\ UNCHANGED << createVars, signalVars, attachVars, clientVars >>

\* c.RestartCount++
RestartCountIncr(h) ==
    /\ handler[h].pc = "restartCount"
    /\ ctr' = [ctr EXCEPT ![handler[h].id].RestartCount = @ + 1]
    /\ handler' = [Did(h, Step("RestartCount++")) EXCEPT ![h].pc = "setRestarting"]
    /\ UNCHANGED << GOOS, containers, execCommands, ctrLock, disk, execs, nEvents >>
    /\ UNCHANGED << createVars, signalVars, attachVars, clientVars >>

RestartSetRestarting(h) ==
    /\ handler[h].pc = "setRestarting"
    /\ ctr' = [ctr EXCEPT ![handler[h].id] =
                 SetRestarting(@, platformConstructExitStatus(handler[h].e))]
    /\ handler' = [Did(h, Step("SetRestarting")) EXCEPT ![h].pc = "restartLogDie"]
    /\ UNCHANGED << GOOS, containers, execCommands, ctrLock, disk, execs, nEvents >>
    /\ UNCHANGED << createVars, signalVars, attachVars, clientVars >>

RestartLogDie(h) ==
    /\ handler[h].pc = "restartLogDie"
    /\ handler' = [Did(h, LogEvent("die", handler[h].e.ExitCode))
                     EXCEPT ![h].pc = "restartToDisk"]
    /\ UNCHANGED << GOOS, containers, execCommands, ctr, ctrLock, disk, execs, nEvents >>
    /\ UNCHANGED << createVars, signalVars, attachVars, clientVars >>

\* return c.ToDisk()
RestartToDisk(h, ok) ==
    /\ handler[h].pc = "restartToDisk"
    /\ disk' = ToDisk(handler[h].id, ok)
    /\ handler' = Return(Did(h, ToDiskStep(ok)), h, IF ok THEN Nil ELSE ErrToDisk)
    /\ ctrLock' = Unlocked(h)
    /\ UNCHANGED << GOOS, containers, execCommands, ctr, execs, nEvents >>
    /\ UNCHANGED << createVars, signalVars, attachVars, clientVars >>

(* case StateExitProcess *)

ExecLock(h) == Lock(h, "execLock", "execGet")

\* Mutant: the looked-up exec command is used without the nil check.
ExecGetUnchecked(h) ==
    /\ handler[h].pc = "execGet"
    /\ execs' = [execs EXCEPT ![handler[h].e.ProcessID].ExitCode = handler[h].e.ExitCode,
                              ![handler[h].e.ProcessID].Running = FALSE]
    /\ handler' = [Did(h, Step("ExitCode")) EXCEPT ![h].pc = "execWait"]
    /\ UNCHANGED << GOOS, containers, execCommands, ctr, ctrLock, disk, nEvents >>
    /\ UNCHANGED << createVars, signalVars, attachVars, clientVars >>

\* execConfig := c.ExecCommands.Get(e.ProcessID): found, the exit code is
\* recorded and Running cleared; not found, a warning and return nil.
ExecGet(h) ==
    /\ handler[h].pc = "execGet"
    /\ LET id == handler[h].id
           p  == handler[h].e.ProcessID
       IN IF p \in ctr[id].ExecCommands
            THEN /\ execs' = [execs EXCEPT ![p].ExitCode = handler[h].e.ExitCode,
                                           ![p].Running = FALSE]
                 /\ handler' = [Did(h, Step("ExitCode")) EXCEPT ![h].pc = "execWait"]
                 /\ UNCHANGED ctrLock
            ELSE /\ handler' = Return(Did(h, Step("Warn")), h, Nil)
                 /\ ctrLock' = Unlocked(h)
                 /\ UNCHANGED execs
    /\ UNCHANGED << GOOS, containers, execCommands, ctr, disk, nEvents >>
    /\ UNCHANGED << createVars, signalVars, attachVars, clientVars >>

\* execConfig.Wait(): blocks until the exec's stream-copy counter is zero.
ExecWait(h) ==
    /\ handler[h].pc = "execWait"
    /\ execs[handler[h].e.ProcessID].copies = 0
    /\ handler' = [Did(h, Step("Wait")) EXCEPT ![h].pc = "execCloseStreams"]
    /\ UNCHANGED << GOOS, containers, execCommands, ctr, ctrLock, disk, execs, nEvents >>
    /\ UNCHANGED << createVars, signalVars, attachVars, clientVars >>

\* Mutant: an error of CloseStreams is returned.
ExecCloseStreamsPropagated(h, ok) ==
    /\ handler[h].pc = "execCloseStreams"
    /\ execs' = [execs EXCEPT ![handler[h].e.ProcessID].closed = TRUE]
    /\ IF ok
         THEN /\ handler' = [Did(h, Step("CloseStreams")) EXCEPT ![h].pc = "execDelete"]
              /\ UNCHANGED ctrLock
         ELSE /\ handler' = Return(Did(h, Step("CloseStreams failed")), h,
                                   OtherError("CloseStreams failed"))
              /\ ctrLock' = Unlocked(h)
    /\ UNCHANGED << GOOS, containers, execCommands, ctr, disk, nEvents >>
    /\ UNCHANGED << createVars, signalVars, attachVars, clientVars >>

\* execConfig.CloseStreams(): an error is logged.
ExecCloseStreams(h, ok) ==
    /\ handler[h].pc = "execCloseStreams"
    /\ execs' = [execs EXCEPT ![handler[h].e.ProcessID].closed = TRUE]
    /\ handler' = [Did(h, Step(IF ok THEN "CloseStreams" ELSE "CloseStreams failed"))
                     EXCEPT ![h].pc = "execDelete"]
    /\ UNCHANGED << GOOS, containers, execCommands, ctr, ctrLock, disk, nEvents >>
    /\ UNCHANGED << createVars, signalVars, attachVars, clientVars >>

\* c.ExecCommands.Delete(execConfig.ID), then the return nil at the bottom.
ExecDelete(h) ==
    /\ handler[h].pc = "execDelete"
    /\ ctr' = [ctr EXCEPT ![handler[h].id].ExecCommands = @ \ {handler[h].e.ProcessID}]
    /\ handler' = Return(Did(h, Step("Delete")), h, Nil)
    /\ ctrLock' = Unlocked(h)
    /\ UNCHANGED << GOOS, containers, execCommands, disk, execs, nEvents >>
    /\ UNCHANGED << createVars, signalVars, attachVars, clientVars >>

(* case StateStart, StateRestore *)

\* Mutant: every Start or Restore event counts as a fresh start.
StartSetRunningFresh(h) ==
    /\ handler[h].pc = "setRunning"
    /\ ctr' = [ctr EXCEPT ![handler[h].id] =
                 [SetRunning(@, handler[h].e.Pid, TRUE)
                    EXCEPT !.HasBeenManuallyStopped = FALSE]]
    /\ handler' = [Did(h, Step("SetRunning")) EXCEPT ![h].pc = "startToDisk"]
    /\ UNCHANGED << GOOS, containers, execCommands, ctrLock, disk, execs, nEvents >>
    /\ UNCHANGED << createVars, signalVars, attachVars, clientVars >>

\* c.SetRunning(int(e.Pid), e.State == StateStart); c.HasBeenManuallyStopped = false
StartSetRunning(h) ==
    /\ handler[h].pc = "setRunning"
    /\ ctr' = [ctr EXCEPT ![handler[h].id] =
                 [SetRunning(@, handler[h].e.Pid, handler[h].e.State = "StateStart")
                    EXCEPT !.HasBeenManuallyStopped = FALSE]]
    /\ handler' = [Did(h, Step("SetRunning")) EXCEPT ![h].pc = "startToDisk"]
    /\ UNCHANGED << GOOS, containers, execCommands, ctrLock, disk, execs, nEvents >>
    /\ UNCHANGED << createVars, signalVars, attachVars, clientVars >>

\* if err := c.ToDisk(); err != nil { c.Reset(false); return err }
StartToDisk(h, ok) ==
    /\ handler[h].pc = "startToDisk"
    /\ disk' = ToDisk(handler[h].id, ok)
    /\ IF ok
         THEN /\ handler' = Return(Did(h, ToDiskStep(ok)), h, Nil)
              /\ UNCHANGED ctr
         ELSE /\ handler' = Return([Did(h, ToDiskStep(ok)) EXCEPT
                                       ![h].trace = Append(@, Step("Reset"))],
                                   h, ErrToDisk)
              /\ ctr' = [ctr EXCEPT ![handler[h].id] = Reset(@)]
    /\ UNCHANGED << GOOS, containers, execCommands, ctrLock, execs, nEvents >>
    /\ UNCHANGED << createVars, signalVars, attachVars, clientVars >>

(* case StatePause, StateResume *)

\* Mutant: the Pause branch persists the container.
HandlePausePersisted(h) ==
    /\ handler[h].pc = "pause"
    /\ ctr' = [ctr EXCEPT ![handler[h].id].Paused = TRUE]
    /\ disk' = [disk EXCEPT ![handler[h].id] = ctr'[handler[h].id]]
    /\ handler' = Return(Did(h, LogEvent("pause", NoCode)), h, Nil)
    /\ UNCHANGED << GOOS, containers, execCommands, ctrLock, execs, nEvents >>
    /\ UNCHANGED << createVars, signalVars, attachVars, clientVars >>

HandlePause(h) ==
    /\ handler[h].pc = "pause"
    /\ ctr' = [ctr EXCEPT ![handler[h].id].Paused = TRUE]
    /\ handler' = Return(Did(h, LogEvent("pause", NoCode)), h, Nil)
    /\ UNCHANGED << GOOS, containers, execCommands, ctrLock, disk, execs, nEvents >>
    /\ UNCHANGED << createVars, signalVars, attachVars, clientVars >>

HandleResume(h) ==
    /\ handler[h].pc = "resume"
    /\ ctr' = [ctr EXCEPT ![handler[h].id].Paused = FALSE]
    /\ handler' = Return(Did(h, LogEvent("unpause", NoCode)), h, Nil)
    /\ UNCHANGED << GOOS, containers, execCommands, ctrLock, disk, execs, nEvents >>
    /\ UNCHANGED << createVars, signalVars, attachVars, clientVars >>

(* The stream-copy tasks started by AttachStreams *)

\* A copy task of a container's stream configuration ends: s.Done().
CopyDone(id) ==
    /\ ctr[id].copies > 0
    /\ ctr' = [ctr EXCEPT ![id].copies = @ - 1]
    /\ UNCHANGED << GOOS, containers, execCommands, ctrLock, disk, execs, handler, nEvents >>
    /\ UNCHANGED << createVars, signalVars, attachVars, clientVars >>

\* A copy task of an exec session's stream configuration ends: s.Done().
ExecCopyDone(p) ==
    /\ execs[p].copies > 0
    /\ execs' = [execs EXCEPT ![p].copies = @ - 1]
    /\ UNCHANGED << GOOS, containers, execCommands, ctr, ctrLock, disk, handler, nEvents >>
    /\ UNCHANGED << createVars, signalVars, attachVars, clientVars >>

\* The steps of the dispatcher tasks HS and of the copy tasks.
MonitorNext(HS) ==
    \/ \E h \in HS, id \in ContainerIds, e \in Events : StateChanged(h, id, e)
    \/ \E h \in HS : ContainersGet(h)
    \/ \E h \in HS : HandleOOM(h)
    \/ \E h \in HS : ExitLock(h)
    \/ \E h \in HS : ExitWait(h)
    \/ \E h \in HS : ExitReset(h)
    \/ \E h \in HS : ExitSetStopped(h)
    \/ \E h \in HS : ExitLogDie(h)
    \/ \E h \in HS : ExitCleanup(h)
    \/ \E h \in HS, ok \in BOOLEAN : ExitToDisk(h, ok)
    \/ \E h \in HS : RestartLock(h)
    \/ \E h \in HS : RestartReset(h)
    \/ \E h \in HS : RestartCountIncr(h)
    \/ \E h \in HS : RestartSetRestarting(h)
    \/ \E h \in HS : RestartLogDie(h)
    \/ \E h \in HS, ok \in BOOLEAN : RestartToDisk(h, ok)
    \/ \E h \in HS : ExecLock(h)
    \/ \E h \in HS : ExecGet(h)
    \/ \E h \in HS : ExecWait(h)
    \/ \E h \in HS, ok \in BOOLEAN : ExecCloseStreams(h, ok)
    \/ \E h \in HS : ExecDelete(h)
    \/ \E h \in HS : StartSetRunning(h)
    \/ \E h \in HS, ok \in BOOLEAN : StartToDisk(h, ok)
    \/ \E h \in HS : HandlePause(h)
    \/ \E h \in HS : HandleResume(h)
    \/ \E id \in RegisteredIds : CopyDone(id)
    \/ \E p \in LaunchedExecs : ExecCopyDone(p)

-----------------------------------------------------------------------------
(* Daemon.AttachStreams  (daemon/monitor.go)                               *)

\* AttachStreams calls in one run of the model.
MaxAttach == 1

\* The ids AttachStreams is called with: containers and exec sessions.
AttachIds == ContainerIds \cup ExecIds

\* libcontainerd.IOPipe: for each pipe, whether it is non-nil.
IOPipes == [Stdin : BOOLEAN, Stdout : BOOLEAN, Stderr : BOOLEAN]

ErrNoSuchExecContainer == OtherError("no such exec/container")

ErrStartLogging == OtherError("StartLogging failed")

\* What AttachStreams reads of a container or exec session besides its
\* counter: whether s.Stdin() is non-nil, and Config.Tty.
NewConfig(stdin, tty) == [Stdin |-> stdin, Tty |-> tty]

\* daemon.getExecConfig(id): the exec session of the daemon's store, or an error.
getExecConfig(id) ==
    IF id \in execCommands THEN Nil ELSE OtherError("no such exec instance")

\* daemon.StartLogging(c): the container's log driver is set up.
StartLogging(c) == [c EXCEPT !.LogDriver = TRUE]

\* One AttachStreams call: its arguments and locals, the number of Close
\* calls on iop.Stdin, and the state of the goroutines it has started.
AttachCall(id, iop) ==
    [ pc          |-> "get",
      id          |-> id,
      iop         |-> iop,
      c           |-> FALSE,     \* c != nil
      s           |-> NoId,      \* whose StreamConfig s points to
      trace       |-> << >>,
      ret         |-> Pending,
      stdinClosed |-> 0,
      tasks       |-> [Stdin |-> "none", Stdout |-> "none", Stderr |-> "none"] ]

\* The call in progress, or the last one made.
Cur == Len(attach)

\* The statement after the wiring of a stream.
After(stream) == IF stream = "Stdout" THEN "Stderr" ELSE "return"

\* s.Add(delta) on the stream configuration of target.
Add(target, delta) ==
    /\ ctr' = IF target \in ContainerIds
                THEN [ctr EXCEPT ![target].copies = @ + delta] ELSE ctr
    /\ execs' = IF target \in ExecIds
                  THEN [execs EXCEPT ![target].copies = @ + delta] ELSE execs

\* libcontainerd calls AttachStreams(id, iop).
AttachStreams(id, iop) ==
    /\ Len(attach) < MaxAttach
    /\ Len(attach) > 0 => attach[Cur].pc = "done"
    /\ attach' = Append(attach, AttachCall(id, iop))
    /\ UNCHANGED config
    /\ UNCHANGED << createVars, signalVars, monitorVars, clientVars >>

\* Mutant: the error of getExecConfig is ignored.
AttachGetUnchecked ==
    /\ Len(attach) > 0
    /\ attach[Cur].pc = "get"
    /\ attach' =
         IF attach[Cur].id \in containers
           THEN [attach EXCEPT ![Cur].c = TRUE, ![Cur].s = attach[Cur].id,
                               ![Cur].pc = "startLogging"]
           ELSE [attach EXCEPT ![Cur].s = attach[Cur].id, ![Cur].pc = "stdin"]
    /\ UNCHANGED config
    /\ UNCHANGED << createVars, signalVars, monitorVars, clientVars >>

\* c := daemon.containers.Get(id); nil: daemon.getExecConfig(id), whose
\* error returns "no such exec/container".
AttachGet ==
    /\ Len(attach) > 0
    /\ attach[Cur].pc = "get"
    /\ LET id == attach[Cur].id
       IN attach' =
            IF id \in containers
              THEN [attach EXCEPT ![Cur].c = TRUE, ![Cur].s = id,
                                  ![Cur].pc = "startLogging"]
              ELSE IF getExecConfig(id) = Nil
                     THEN [attach EXCEPT ![Cur].s = id, ![Cur].pc = "stdin"]
                     ELSE [attach EXCEPT ![Cur].ret = ErrNoSuchExecContainer,
                                         ![Cur].pc = "done"]
    /\ UNCHANGED config
    /\ UNCHANGED << createVars, signalVars, monitorVars, clientVars >>

\* Mutant: the error of StartLogging is dropped and the wiring goes on.
AttachStartLoggingIgnored(ok) ==
    /\ Len(attach) > 0
    /\ attach[Cur].pc = "startLogging"
    /\ ctr' = [ctr EXCEPT ![attach[Cur].id] = IF ok THEN StartLogging(@) ELSE @]
    /\ attach' = [attach EXCEPT
                    ![Cur].trace = Append(@, Step(IF ok THEN "StartLogging"
                                                        ELSE "StartLogging failed")),
                    ![Cur].pc = "stdin"]
    /\ UNCHANGED config
    /\ UNCHANGED << GOOS, containers, execCommands, ctrLock, disk, execs, handler,
                    nEvents >>
    /\ UNCHANGED << createVars, signalVars, clientVars >>

\* if err := daemon.StartLogging(c); err != nil { c.Reset(false); return err }
AttachStartLogging(ok) ==
    /\ Len(attach) > 0
    /\ attach[Cur].pc = "startLogging"
    /\ IF ok
         THEN /\ ctr' = [ctr EXCEPT ![attach[Cur].id] = StartLogging(@)]
              /\ attach' = [attach EXCEPT
                              ![Cur].trace = Append(@, Step("StartLogging")),
                              ![Cur].pc = "stdin"]
         ELSE /\ ctr' = [ctr EXCEPT ![attach[Cur].id] = Reset(@)]
              /\ attach' = [attach EXCEPT
                              ![Cur].trace = @ \o << Step("StartLogging failed"),
                                                     Step("Reset") >>,
                              ![Cur].ret = ErrStartLogging,
                              ![Cur].pc = "done"]
    /\ UNCHANGED config
    /\ UNCHANGED << GOOS, containers, execCommands, ctrLock, disk, execs, handler,
                    nEvents >>
    /\ UNCHANGED << createVars, signalVars, clientVars >>

\* Mutant: the call closes the stdin pipe it hands to the goroutine.
AttachStdinCloses ==
    /\ Len(attach) > 0
    /\ attach[Cur].pc = "stdin"
    /\ attach' =
         IF attach[Cur].iop.Stdin
           THEN [attach EXCEPT
                   ![Cur].tasks.Stdin = IF config[attach[Cur].s].Stdin
                                          THEN "copying" ELSE "none",
                   ![Cur].stdinClosed = @ + 1,
                   ![Cur].trace = Append(@, Step("Close Stdin")),
                   ![Cur].pc = "Stdout"]
           ELSE [attach EXCEPT ![Cur].pc = "Stdout"]
    /\ UNCHANGED config
    /\ UNCHANGED << createVars, signalVars, monitorVars, clientVars >>

\* The stdin wiring: with a stdin source and a stdin pipe, the goroutine
\* that copies and then closes the pipe is started; with no source, a
\* container and no tty, a stdin pipe is closed.
AttachStdin ==
    /\ Len(attach) > 0
    /\ attach[Cur].pc = "stdin"
    /\ LET a == attach[Cur]
       IN attach' =
            IF config[a.s].Stdin
              THEN IF a.iop.Stdin
                     THEN [attach EXCEPT ![Cur].tasks.Stdin = "copying",
                                         ![Cur].trace = Append(@, Step("go Stdin")),
                                         ![Cur].pc = "Stdout"]
                     ELSE [attach EXCEPT ![Cur].pc = "Stdout"]
              ELSE IF a.c /\ ~config[a.id].Tty /\ a.iop.Stdin
                     THEN [attach EXCEPT ![Cur].stdinClosed = @ + 1,
                                         ![Cur].trace = Append(@, Step("Close Stdin")),
                                         ![Cur].pc = "Stdout"]
                     ELSE [attach EXCEPT ![Cur].pc = "Stdout"]
    /\ UNCHANGED config
    /\ UNCHANGED << createVars, signalVars, monitorVars, clientVars >>

\* if iop.<stream> != nil { copy(...) }: the s.Add(1) of copy.
AttachCopyAdd(stream) ==
    /\ Len(attach) > 0
    /\ attach[Cur].pc = stream
    /\ IF attach[Cur].iop[stream]
         THEN /\ Add(attach[Cur].s, 1)
              /\ attach' = [attach EXCEPT ![Cur].tasks[stream] = "counted",
                                          ![Cur].trace = Append(@, Step("Add " \o stream)),
                                          ![Cur].pc = stream \o "Go"]
         ELSE /\ attach' = [attach EXCEPT ![Cur].pc = After(stream)]
              /\ UNCHANGED << ctr, execs >>
    /\ UNCHANGED config
    /\ UNCHANGED << GOOS, containers, execCommands, ctrLock, disk, handler, nEvents >>
    /\ UNCHANGED << createVars, signalVars, clientVars >>

\* The go statement of copy: the goroutine of the stream is started.
AttachCopyGo(stream) ==
    /\ Len(attach) > 0
    /\ attach[Cur].pc = stream \o "Go"
    /\ attach' = [attach EXCEPT ![Cur].tasks[stream] = "copying",
                                ![Cur].trace = Append(@, Step("go " \o stream)),
                                ![Cur].pc = After(stream)]
    /\ UNCHANGED config
    /\ UNCHANGED << createVars, signalVars, monitorVars, clientVars >>

\* return nil
AttachReturn ==
    /\ Len(attach) > 0
    /\ attach[Cur].pc = "return"
    /\ attach' = [attach EXCEPT ![Cur].ret = Nil, ![Cur].pc = "done"]
    /\ UNCHANGED config
    /\ UNCHANGED << createVars, signalVars, monitorVars, clientVars >>

(* The goroutines started by AttachStreams *)

\* io.Copy(iop.Stdin, stdin) of the stdin goroutine of call k returns.
StdinCopyEnd(k) ==
    /\ k <= Len(attach)
    /\ attach[k].tasks.Stdin = "copying"
    /\ attach' = [attach EXCEPT ![k].tasks.Stdin = "copied"]
    /\ UNCHANGED config
    /\ UNCHANGED << createVars, signalVars, monitorVars, clientVars >>

\* iop.Stdin.Close() of the stdin goroutine of call k.
StdinClose(k) ==
    /\ k <= Len(attach)
    /\ attach[k].tasks.Stdin = "copied"
    /\ attach' = [attach EXCEPT ![k].tasks.Stdin = "closed",
                                ![k].stdinClosed = @ + 1]
    /\ UNCHANGED config
    /\ UNCHANGED << createVars, signalVars, monitorVars, clientVars >>

\* Mutant: s.Done() is skipped when the copy failed.
CopyEndDoneOnSuccess(k, stream, ok) ==
    /\ k <= Len(attach)
    /\ attach[k].tasks[stream] = "copying"
    /\ attach' = [attach EXCEPT ![k].tasks[stream] = IF ok THEN "done" ELSE "failed"]
    /\ Add(attach[k].s, IF ok THEN 0 - 1 ELSE 0)
    /\ UNCHANGED config
    /\ UNCHANGED << GOOS, containers, execCommands, ctrLock, disk, handler, nEvents >>
    /\ UNCHANGED << createVars, signalVars, clientVars >>

\* Mutant: the goroutine ends without s.Done().
CopyEndWithoutDone(k, stream, ok) ==
    /\ k <= Len(attach)
    /\ attach[k].tasks[stream] = "copying"
    /\ attach' = [attach EXCEPT ![k].tasks[stream] = IF ok THEN "done" ELSE "failed"]
    /\ Add(attach[k].s, 0)
    /\ UNCHANGED config
    /\ UNCHANGED << GOOS, containers, execCommands, ctrLock, disk, handler, nEvents >>
    /\ UNCHANGED << createVars, signalVars, clientVars >>

\* io.Copy(w, r) of a stdout or stderr goroutine of call k returns, with an
\* error (logged) or without; then s.Done().
CopyEnd(k, stream, ok) ==
    /\ k <= Len(attach)
    /\ attach[k].tasks[stream] = "copying"
    /\ attach' = [attach EXCEPT ![k].tasks[stream] = IF ok THEN "done" ELSE "failed"]
    /\ Add(attach[k].s, 0 - 1)
    /\ UNCHANGED config
    /\ UNCHANGED << GOOS, containers, execCommands, ctrLock, disk, handler, nEvents >>
    /\ UNCHANGED << createVars, signalVars, clientVars >>

CopyStreams == {"Stdout", "Stderr"}

AttachNext ==
    \/ \E id \in AttachIds, iop \in IOPipes : AttachStreams(id, iop)
    \/ AttachGet
    \/ \E ok \in BOOLEAN : AttachStartLogging(ok)
    \/ AttachStdin
    \/ \E stream \in CopyStreams : AttachCopyAdd(stream)
    \/ \E stream \in CopyStreams : AttachCopyGo(stream)
    \/ AttachReturn
    \/ \E k \in 1..MaxAttach : StdinCopyEnd(k)
    \/ \E k \in 1..MaxAttach : StdinClose(k)
    \/ \E k \in 1..MaxAttach, stream \in CopyStreams, ok \in BOOLEAN :
         CopyEnd(k, stream, ok)

-----------------------------------------------------------------------------
(* client.Create: translation of the port bindings                         *)
(* (libcontainerd/client_windows.go)                                       *)

\* Texts are sequences of one-character strings.
PortTexts ==
    { << "8", "0" >>, << "8", "0", "8", "0" >>, << "6", "5", "5", "3", "6" >>,
      << "-", "1" >>, << "h", "t", "t", "p" >>, << >> }

\* nat.Port keys, as what i.Port() and i.Proto() return for them.
NatPort(port, proto) == [Port |-> port, Proto |-> proto]

NatPorts ==
    { NatPort(<< "8", "0" >>, << "t", "c", "p" >>),
      NatPort(<< "8", "0", "8", "0" >>, << "U", "D", "P" >>),
      NatPort(<< "6", "5", "5", "3", "6" >>, << "T", "c", "p" >>),
      NatPort(<< "h", "t", "t", "p" >>, << "u", "d", "p" >>),
      NatPort(<< "8", "0" >>, << "s", "c", "t", "p" >>) }

\* nat.PortBinding
PortBinding(hostIP, hostPort) == [HostIP |-> hostIP, HostPort |-> hostPort]

\* The host bindings a container port may carry.
BindingLists ==
    { << >>,
      << PortBinding("", << "8", "0", "8", "0" >>) >>,
      << PortBinding("10.0.0.1", << "8", "0", "8", "0" >>) >>,
      << PortBinding("", << "8", "0", "8", "0" >>), PortBinding("", << "8", "0" >>) >>,
      << PortBinding("", << "-", "1" >>) >>,
      << PortBinding("", << "6", "5", "5", "3", "6" >>) >>,
      << PortBinding("", << >>) >> }

\* spec.Windows.Networking.PortBindings: a map from nat.Port to its bindings.
PortMaps ==
    UNION { [keys -> BindingLists] : keys \in SUBSET NatPorts }

NoBindings == [i \in {} |-> << >>]

\* strings.ToUpper on the letters of the protocol names.
Upper(ch) ==
    CASE ch = "t" -> "T" [] ch = "c" -> "C" [] ch = "p" -> "P"
      [] ch = "u" -> "U" [] ch = "d" -> "D" [] ch = "s" -> "S"
      [] ch = "h" -> "H"
      [] OTHER -> ch

\* Mutant: the protocol is compared as written.
ToUpperSkipped(text) == text

ToUpper(text) == [k \in 1..Len(text) |-> Upper(text[k])]

DigitChars == << "0", "1", "2", "3", "4", "5", "6", "7", "8", "9" >>

IsDigit(ch) == \E d \in 1..10 : DigitChars[d] = ch

DigitValue(ch) == (CHOOSE d \in 1..10 : DigitChars[d] = ch) - 1

RECURSIVE Decimal(_)
\* The value of a sequence of digits, base 10.
Decimal(text) ==
    IF text = << >> THEN 0
    ELSE 10 * Decimal(SubSeq(text, 1, Len(text) - 1)) + DigitValue(text[Len(text)])

\* strconv.Atoi: an optional sign, then one digit at least and digits only.
Atoi(text) ==
    LET signed == text # << >> /\ text[1] \in {"+", "-"}
        digits == IF signed THEN Tail(text) ELSE text
    IN IF digits = << >> \/ \E k \in 1..Len(digits) : ~IsDigit(digits[k])
         THEN [err |-> OtherError("invalid syntax"), n |-> 0]
         ELSE [err |-> Nil,
               n   |-> IF signed /\ text[1] = "-" THEN 0 - Decimal(digits)
                                                 ELSE Decimal(digits)]

\* The translation before Create is called, for the bindings given.
NatIdle(bindings) ==
    [ pc           |-> "idle",
      PortBindings |-> bindings,
      todo         |-> {},       \* keys the range loop has not visited yet
      pbs          |-> << >>,
      ret          |-> Pending ]

\* if spec.Windows.Networking != nil: the range loop begins.
TranslateBegin ==
    /\ nat.pc = "idle"
    /\ nat' = [nat EXCEPT !.pc = "range", !.todo = DOMAIN nat.PortBindings]
    /\ UNCHANGED << createVars, signalVars, monitorVars, attachVars, clientCall >>

\* What one iteration of the outer loop does with key i and its bindings v:
\* an error to return, or the bindings to append.
TranslateOne(i, v) ==
    LET proto == ToUpper(i.Proto)
    IN IF proto # << "T", "C", "P" >> /\ proto # << "U", "D", "P" >>
         THEN [err |-> OtherError("invalid protocol"), pbs |-> << >>]
       ELSE IF Len(v) > 1
         THEN [err |-> OtherError("more than one host port"), pbs |-> << >>]
       ELSE IF Len(v) = 0
         THEN [err |-> Nil, pbs |-> << >>]
       ELSE LET v2    == v[1]
                ePort == Atoi(v2.HostPort)
                iPort == Atoi(i.Port)
            IN IF v2.HostIP # ""
                 THEN [err |-> OtherError("host IP addresses"), pbs |-> << >>]
               ELSE IF ePort.err # Nil
                 THEN [err |-> OtherError("invalid container port"), pbs |-> << >>]
               ELSE IF iPort.err # Nil
                 THEN [err |-> OtherError("invalid internal port"), pbs |-> << >>]
               ELSE IF iPort.n < 0 \/ iPort.n > 65535 \/ ePort.n < 0 \/ ePort.n > 65535
                 THEN [err |-> OtherError("port is not in allowed range"), pbs |-> << >>]
               ELSE [err |-> Nil,
                     pbs |-> << [ExternalPort |-> ePort.n,
                                 InternalPort |-> iPort.n,
                                 Protocol     |-> proto] >>]

\* One iteration of `for i, v := range PortBindings`, in the map's order.
TranslateBinding(i) ==
    /\ nat.pc = "range"
    /\ i \in nat.todo
    /\ LET r == TranslateOne(i, nat.PortBindings[i])
       IN nat' = IF r.err # Nil
                   THEN [nat EXCEPT !.ret = r.err, !.pc = "done"]
                   ELSE [nat EXCEPT !.pbs = @ \o r.pbs, !.todo = @ \ {i}]
    /\ UNCHANGED << createVars, signalVars, monitorVars, attachVars, clientCall >>

\* The loop has visited every key: pbs goes into the network device.
TranslateEnd ==
    /\ nat.pc = "range"
    /\ nat.todo = {}
    /\ nat' = [nat EXCEPT !.ret = Nil, !.pc = "done"]
    /\ UNCHANGED << createVars, signalVars, monitorVars, attachVars, clientCall >>

PortsNext ==
    \/ TranslateBegin
    \/ \E i \in NatPorts : TranslateBinding(i)
    \/ TranslateEnd

-----------------------------------------------------------------------------
(* The operations client_windows.go does not implement                     *)

ErrNotImplemented == OtherError("Not yet implemented on Windows")

\* No such operation has been called yet.
NoCall == [op |-> "none", id |-> NoId, ret |-> Pending, calls |-> << >>]

\* The result of a call that did nothing but
\* return errors.New("Not yet implemented on Windows"); calls lists the
\* runtime calls made on the way.
NotImplemented(op, id) ==
    [op |-> op, id |-> id, ret |-> ErrNotImplemented, calls |-> << >>]

AddProcess(id) ==
    /\ clientCall' = NotImplemented("AddProcess", id)
    /\ UNCHANGED << createVars, signalVars, monitorVars, attachVars, nat >>

Resize(id) ==
    /\ clientCall' = NotImplemented("Resize", id)
    /\ UNCHANGED << createVars, signalVars, monitorVars, attachVars, nat >>

\* Mutant: Pause does nothing and reports success.
PauseSilently(id) ==
    /\ clientCall' = [op |-> "Pause", id |-> id, ret |-> Nil, calls |-> << >>]
    /\ UNCHANGED << createVars, signalVars, monitorVars, attachVars, nat >>

Pause(id) ==
    /\ clientCall' = NotImplemented("Pause", id)
    /\ UNCHANGED << createVars, signalVars, monitorVars, attachVars, nat >>

Resume(id) ==
    /\ clientCall' = NotImplemented("Resume", id)
    /\ UNCHANGED << createVars, signalVars, monitorVars, attachVars, nat >>

Stats(id) ==
    /\ clientCall' = NotImplemented("Stats", id)
    /\ UNCHANGED << createVars, signalVars, monitorVars, attachVars, nat >>

Restore(id) ==
    /\ clientCall' = NotImplemented("Restore", id)
    /\ UNCHANGED << createVars, signalVars, monitorVars, attachVars, nat >>

GetPidsForContainer(id) ==
    /\ clientCall' = NotImplemented("GetPidsForContainer", id)
    /\ UNCHANGED << createVars, signalVars, monitorVars, attachVars, nat >>

UpdateResources(id) ==
    /\ clientCall' = NotImplemented("UpdateResources", id)
    /\ UNCHANGED << createVars, signalVars, monitorVars, attachVars, nat >>

UnsupportedNext ==
    \/ \E id \in ContainerIds : AddProcess(id)
    \/ \E id \in ContainerIds : Resize(id)
    \/ \E id \in ContainerIds : Pause(id)
    \/ \E id \in ContainerIds : Resume(id)
    \/ \E id \in ContainerIds : Stats(id)
    \/ \E id \in ContainerIds : Restore(id)
    \/ \E id \in ContainerIds : GetPidsForContainer(id)
    \/ \E id \in ContainerIds : UpdateResources(id)

-----------------------------------------------------------------------------
(* Initial states and specifications *)

\* The state after construction: the platform, an idle client with any set
\* of registered handles, and a daemon with its registered containers, whose
\* stream-copy tasks may still be running.
Init ==
    /\ IsTP4 \in BOOLEAN
    /\ create = CreateIdle
    /\ clntContainers \in [ContainerIds -> SystemPids \cup {NoContainer}]
    /\ clntLocks = [id \in ContainerIds |-> NoHolder]
    /\ signal = [t \in SigCallers |-> SignalIdle]
    /\ GOOS \in {"windows", "linux"}
    /\ containers = RegisteredIds
    /\ execCommands = LaunchedExecs
    /\ \E m \in BOOLEAN, n \in 0..MaxCopies :
         ctr = [id \in ContainerIds |->
                  NewContainer(m, IF id \in RegisteredIds THEN n ELSE 0)]
    /\ ctrLock = [id \in ContainerIds |-> NoHolder]
    /\ disk = ctr
    /\ \E n \in 0..MaxCopies :
         execs = [p \in ExecIds |-> NewExec(IF p \in LaunchedExecs THEN n ELSE 0)]
    /\ handler = [h \in Handlers |-> HandlerIdle]
    /\ nEvents = 0
    /\ attach = << >>
    /\ clientCall = NoCall
    /\ nat \in {NatIdle(m) : m \in PortMaps}
    /\ \E cc, ec \in [Stdin : BOOLEAN, Tty : BOOLEAN] :
         config = [t \in AttachIds |->
                     IF t \in RegisteredIds THEN cc
                     ELSE IF t \in LaunchedExecs THEN ec
                     ELSE NewConfig(FALSE, FALSE)]

Next ==
    \/ CreateNext
    \/ SignalNext
    \/ MonitorNext(Handlers)
    \/ AttachNext
    \/ PortsNext
    \/ UnsupportedNext

\* client.Create alone: the client's handle table and the daemon are at rest.
InitCreate ==
    /\ IsTP4 \in BOOLEAN
    /\ create = CreateIdle
    /\ clntContainers = [id \in ContainerIds |-> NoContainer]
    /\ clntLocks = [id \in ContainerIds |-> NoHolder]
    /\ signal = [t \in SigCallers |-> SignalIdle]
    /\ GOOS = "windows"
    /\ containers = RegisteredIds
    /\ execCommands = LaunchedExecs
    /\ ctr = [id \in ContainerIds |-> NewContainer(FALSE, 0)]
    /\ ctrLock = [id \in ContainerIds |-> NoHolder]
    /\ disk = ctr
    /\ execs = [p \in ExecIds |-> NewExec(0)]
    /\ handler = [h \in Handlers |-> HandlerIdle]
    /\ nEvents = 0
    /\ attach = << >>
    /\ clientCall = NoCall
    /\ nat = NatIdle(NoBindings)
    /\ config = [t \in AttachIds |-> NewConfig(FALSE, FALSE)]

SpecCreate == InitCreate /\ [][CreateNext]_vars

\* The steps of a running Create call.
CreateSteps ==
    \/ \E res \in CreateResults : CreateNotTP4(res)
    \/ \E res \in CreateResults : CreateTP4Attempt(res)
    \/ CreateTP4LoopEnd
    \/ CreateNewContainer
    \/ \E res \in StartResults : CreateStart(res)

\* A Create call that has been entered runs on: every runtime call it
\* makes returns, and the calling goroutine is scheduled.  No fairness on
\* the arrival of calls.
SpecCreateFair == InitCreate /\ [][CreateNext]_vars /\ WF_vars(CreateSteps)

\* client.Signal alone, called concurrently by SigCallers.
InitSignal ==
    /\ IsTP4 = FALSE
    /\ create = CreateIdle
    /\ clntContainers \in [ContainerIds -> SystemPids \cup {NoContainer}]
    /\ clntLocks = [id \in ContainerIds |-> NoHolder]
    /\ signal = [t \in SigCallers |-> SignalIdle]
    /\ GOOS = "windows"
    /\ containers = RegisteredIds
    /\ execCommands = LaunchedExecs
    /\ ctr = [id \in ContainerIds |-> NewContainer(FALSE, 0)]
    /\ ctrLock = [id \in ContainerIds |-> NoHolder]
    /\ disk = ctr
    /\ execs = [p \in ExecIds |-> NewExec(0)]
    /\ handler = [h \in Handlers |-> HandlerIdle]
    /\ nEvents = 0
    /\ attach = << >>
    /\ clientCall = NoCall
    /\ nat = NatIdle(NoBindings)
    /\ config = [t \in AttachIds |-> NewConfig(FALSE, FALSE)]

SpecSignal == InitSignal /\ [][SignalNext]_vars

\* Daemon.StateChanged alone, its events delivered one after the other.
InitMonitor ==
    /\ IsTP4 = FALSE
    /\ create = CreateIdle
    /\ clntContainers = [id \in ContainerIds |-> NoContainer]
    /\ clntLocks = [id \in ContainerIds |-> NoHolder]
    /\ signal = [t \in SigCallers |-> SignalIdle]
    /\ GOOS \in {"windows", "linux"}
    /\ containers = RegisteredIds
    /\ execCommands = LaunchedExecs
    /\ \E m \in BOOLEAN, n \in 0..MaxCopies :
         ctr = [id \in ContainerIds |->
                  NewContainer(m, IF id \in RegisteredIds THEN n ELSE 0)]
    /\ ctrLock = [id \in ContainerIds |-> NoHolder]
    /\ disk = ctr
    /\ \E n \in 0..MaxCopies :
         execs = [p \in ExecIds |-> NewExec(IF p \in LaunchedExecs THEN n ELSE 0)]
    /\ handler = [h \in Handlers |-> HandlerIdle]
    /\ nEvents = 0
    /\ attach = << >>
    /\ clientCall = NoCall
    /\ nat = NatIdle(NoBindings)
    /\ config = [t \in AttachIds |-> NewConfig(FALSE, FALSE)]

SpecMonitor == InitMonitor /\ [][MonitorNext(Dispatcher)]_vars

\* The events whose branch of the switch takes the container's lock.
LockedEvents ==
    {e \in Events : /\ e.State \in {"StateExit", "StateRestart", "StateExitProcess"}
                    /\ e.ExitCode = 3}

\* Exit, Restart and ExitProcess events of one registered container,
\* delivered by two tasks at once.
LockedNext ==
    \/ \E h \in Handlers, id \in RegisteredIds, e \in LockedEvents :
         StateChanged(h, id, e)
    \/ \E h \in Handlers : ContainersGet(h)
    \/ \E h \in Handlers : ExitLock(h)
    \/ \E h \in Handlers : ExitWait(h)
    \/ \E h \in Handlers : ExitReset(h)
    \/ \E h \in Handlers : ExitSetStopped(h)
    \/ \E h \in Handlers : ExitLogDie(h)
    \/ \E h \in Handlers : ExitCleanup(h)
    \/ \E h \in Handlers, ok \in BOOLEAN : ExitToDisk(h, ok)
    \/ \E h \in Handlers : RestartLock(h)
    \/ \E h \in Handlers : RestartReset(h)
    \/ \E h \in Handlers : RestartCountIncr(h)
    \/ \E h \in Handlers : RestartSetRestarting(h)
    \/ \E h \in Handlers : RestartLogDie(h)
    \/ \E h \in Handlers, ok \in BOOLEAN : RestartToDisk(h, ok)
    \/ \E h \in Handlers : ExecLock(h)
    \/ \E h \in Handlers : ExecGet(h)
    \/ \E h \in Handlers : ExecWait(h)
    \/ \E h \in Handlers, ok \in BOOLEAN : ExecCloseStreams(h, ok)
    \/ \E h \in Handlers : ExecDelete(h)
    \/ \E id \in RegisteredIds : CopyDone(id)
    \/ \E p \in LaunchedExecs : ExecCopyDone(p)

SpecLocked == InitMonitor /\ [][LockedNext]_vars

RestartEvents == {e \in Events : e.State = "StateRestart"}

\* Restart events of one registered container, delivered by two tasks at once.
RestartNext ==
    \/ \E h \in Handlers, id \in RegisteredIds, e \in RestartEvents :
         StateChanged(h, id, e)
    \/ \E h \in Handlers : ContainersGet(h)
    \/ \E h \in Handlers : RestartLock(h)
    \/ \E h \in Handlers : RestartReset(h)
    \/ \E h \in Handlers : RestartCountIncr(h)
    \/ \E h \in Handlers : RestartSetRestarting(h)
    \/ \E h \in Handlers : RestartLogDie(h)
    \/ \E h \in Handlers, ok \in BOOLEAN : RestartToDisk(h, ok)

SpecRestart == InitMonitor /\ [][RestartNext]_vars

\* Daemon.AttachStreams alone: no copy task is running yet; the registered
\* container and the launched exec session have any stdin and tty settings.
\* The daemon with one registered container and one launched exec, no
\* stream attached and no event delivered.
InitMonitorIdle ==
    /\ IsTP4 = FALSE
    /\ create = CreateIdle
    /\ clntContainers = [id \in ContainerIds |-> NoContainer]
    /\ clntLocks = [id \in ContainerIds |-> NoHolder]
    /\ signal = [t \in SigCallers |-> SignalIdle]
    /\ GOOS = "windows"
    /\ containers = RegisteredIds
    /\ execCommands = LaunchedExecs
    /\ ctr = [id \in ContainerIds |-> NewContainer(FALSE, 0)]
    /\ ctrLock = [id \in ContainerIds |-> NoHolder]
    /\ disk = ctr
    /\ execs = [p \in ExecIds |-> NewExec(0)]
    /\ handler = [h \in Handlers |-> HandlerIdle]
    /\ nEvents = 0
    /\ attach = << >>
    /\ clientCall = NoCall
    /\ nat = NatIdle(NoBindings)
    /\ config = [t \in AttachIds |-> NewConfig(FALSE, FALSE)]

InitAttach ==
    /\ IsTP4 = FALSE
    /\ create = CreateIdle
    /\ clntContainers = [id \in ContainerIds |-> NoContainer]
    /\ clntLocks = [id \in ContainerIds |-> NoHolder]
    /\ signal = [t \in SigCallers |-> SignalIdle]
    /\ GOOS = "windows"
    /\ containers = RegisteredIds
    /\ execCommands = LaunchedExecs
    /\ ctr = [id \in ContainerIds |-> NewContainer(FALSE, 0)]
    /\ ctrLock = [id \in ContainerIds |-> NoHolder]
    /\ disk = ctr
    /\ execs = [p \in ExecIds |-> NewExec(0)]
    /\ handler = [h \in Handlers |-> HandlerIdle]
    /\ nEvents = 0
    /\ attach = << >>
    /\ clientCall = NoCall
    /\ nat = NatIdle(NoBindings)
    /\ \E cc, ec \in [Stdin : BOOLEAN, Tty : BOOLEAN] :
         config = [t \in AttachIds |->
                     IF t \in RegisteredIds THEN cc
                     ELSE IF t \in LaunchedExecs THEN ec
                     ELSE NewConfig(FALSE, FALSE)]

SpecAttach == InitAttach /\ [][AttachNext]_vars

\* The exit events of the registered container and of its launched exec.
DrainEvents ==
    {e \in Events : /\ e.State \in {"StateExit", "StateExitProcess"}
                    /\ e.ExitCode = 3
                    /\ e.State = "StateExitProcess" => e.ProcessID \in LaunchedExecs}

\* The pipes of a process with its output on stdout alone and no stdin wired.
DrainPipes == {iop \in IOPipes : ~iop.Stdin /\ iop.Stdout /\ ~iop.Stderr}

\* The steps of a running AttachStreams call.
AttachSteps ==
    \/ AttachGet
    \/ \E ok \in BOOLEAN : AttachStartLogging(ok)
    \/ AttachStdin
    \/ \E stream \in CopyStreams : AttachCopyAdd(stream)
    \/ \E stream \in CopyStreams : AttachCopyGo(stream)
    \/ AttachReturn

\* The steps of a running Exit or ExitProcess handler.
ExitSteps(h) ==
    \/ ContainersGet(h)
    \/ ExitLock(h)
    \/ ExitWait(h)
    \/ ExitReset(h)
    \/ ExitSetStopped(h)
    \/ ExitLogDie(h)
    \/ ExitCleanup(h)
    \/ \E ok \in BOOLEAN : ExitToDisk(h, ok)
    \/ ExecLock(h)
    \/ ExecGet(h)
    \/ ExecWait(h)
    \/ \E ok \in BOOLEAN : ExecCloseStreams(h, ok)
    \/ ExecDelete(h)

\* AttachStreams calls for the registered container and its exec, their
\* copy goroutines, and the dispatcher handling exit events.
DrainNext ==
    \/ \E id \in RegisteredIds \cup LaunchedExecs, iop \in DrainPipes :
         AttachStreams(id, iop)
    \/ AttachSteps
    \/ \E k \in 1..MaxAttach, stream \in CopyStreams, ok \in BOOLEAN :
         CopyEnd(k, stream, ok)
    \/ \E h \in Dispatcher, id \in RegisteredIds, e \in DrainEvents :
         StateChanged(h, id, e)
    \/ \E h \in Dispatcher : ExitSteps(h)

\* Every goroutine that can run does run: the AttachStreams call, the
\* dispatcher's handler, and each copy goroutine, whose io.Copy ends.
DrainFairness ==
    /\ WF_vars(AttachSteps)
    /\ \A h \in Dispatcher : WF_vars(ExitSteps(h))
    /\ \A k \in 1..MaxAttach, stream \in CopyStreams :
         WF_vars(\E ok \in BOOLEAN : CopyEnd(k, stream, ok))

SpecDrain == InitMonitorIdle /\ [][DrainNext]_vars /\ DrainFairness

\* The port-binding translation alone, for any map of port bindings.
InitPorts ==
    /\ IsTP4 = FALSE
    /\ create = CreateIdle
    /\ clntContainers = [id \in ContainerIds |-> NoContainer]
    /\ clntLocks = [id \in ContainerIds |-> NoHolder]
    /\ signal = [t \in SigCallers |-> SignalIdle]
    /\ GOOS = "windows"
    /\ containers = RegisteredIds
    /\ execCommands = LaunchedExecs
    /\ ctr = [id \in ContainerIds |-> NewContainer(FALSE, 0)]
    /\ ctrLock = [id \in ContainerIds |-> NoHolder]
    /\ disk = ctr
    /\ execs = [p \in ExecIds |-> NewExec(0)]
    /\ handler = [h \in Handlers |-> HandlerIdle]
    /\ nEvents = 0
    /\ attach = << >>
    /\ clientCall = NoCall
    /\ config = [t \in AttachIds |-> NewConfig(FALSE, FALSE)]
    /\ nat \in {NatIdle(m) : m \in PortMaps}

SpecPorts == InitPorts /\ [][PortsNext]_vars

\* The unimplemented operations alone, on a client with any handle table.
InitUnsupported ==
    /\ IsTP4 = FALSE
    /\ create = CreateIdle
    /\ clntContainers \in [ContainerIds -> SystemPids \cup {NoContainer}]
    /\ clntLocks = [id \in ContainerIds |-> NoHolder]
    /\ signal = [t \in SigCallers |-> SignalIdle]
    /\ GOOS = "windows"
    /\ containers = RegisteredIds
    /\ execCommands = LaunchedExecs
    /\ ctr = [id \in ContainerIds |-> NewContainer(FALSE, 0)]
    /\ ctrLock = [id \in ContainerIds |-> NoHolder]
    /\ disk = ctr
    /\ execs = [p \in ExecIds |-> NewExec(0)]
    /\ handler = [h \in Handlers |-> HandlerIdle]
    /\ nEvents = 0
    /\ attach = << >>
    /\ config = [t \in AttachIds |-> NewConfig(FALSE, FALSE)]
    /\ nat = NatIdle(NoBindings)
    /\ clientCall = NoCall

SpecUnsupported == InitUnsupported /\ [][UnsupportedNext]_vars

Spec == Init /\ [][Next]_vars

-----------------------------------------------------------------------------
(* Properties of client.Create, checked under SpecCreate *)

\* The six Win32 codes the specification calls transient.
TransientCodes ==
    { "ERROR_NOT_FOUND", "ERROR_FILE_NOT_FOUND", "ErrorNoNetwork",
      "ErrorBadPathname", "CoEClassstring", "ErrorInvalidObject" }

TransientFailure(r) == r.kind = "HcsError" /\ r.Err \in TransientCodes

AllTransient(results) ==
    \A k \in 1..Len(results) : TransientFailure(results[k])

\* The retry loop of the running Create call is over.
CreatePastLoop == create.pc \in {"newContainer", "start", "done"}

\* C1: on the retry-enabled platform, a Create call whose CreateComputeSystem
\* attempts all fail with transient codes issues exactly 5 attempts: never
\* more than 5 while the loop runs, and 5 once the loop is over.
C1_ExactlyFiveAttempts ==
    (IsTP4 /\ create.results # << >> /\ AllTransient(create.results))
        => /\ Len(create.results) <= 5
           /\ CreatePastLoop => Len(create.results) = 5

\* C1 witness: a TP4 Create call has ended after five transient failures.
C1_Witness ==
    /\ IsTP4
    /\ create.pc = "done"
    /\ Len(create.results) = 5
    /\ AllTransient(create.results)

\* C2 (as claimed): after 5 transient failures Create returns the last
\* creation error, builds no container handle and does not start the init
\* process.
C2_ExhaustedReturnsLastError ==
    (IsTP4 /\ create.pc = "done" /\ Len(create.results) = 5
           /\ AllTransient(create.results))
        => /\ create.ret = create.results[5]
           /\ ~create.container
           /\ create.startCalls = 0

\* C3 (as claimed): a first attempt failing with anything but one of the six
\* transient codes, an error that is no HcsError included, is the only
\* attempt, and Create returns that error, on both platforms.
C3_NonTransientAbortsAtOnce ==
    (CreatePastLoop /\ create.results # << >>
        /\ create.results[1] # Nil /\ ~TransientFailure(create.results[1]))
        => /\ Len(create.results) = 1
           /\ create.pc = "done"
           /\ create.ret = create.results[1]

\* C4 (as claimed): when the runtime-level container was created and
\* container.start then failed, deleteContainer has been called for the id by
\* the time Create returns its error.
C4_StartFailureDeletes ==
    (create.pc = "done" /\ create.created /\ create.startCalls = 1
        /\ create.startRet # Nil)
        => create.deleted >= 1

-----------------------------------------------------------------------------
(* Properties of client.Signal, checked under SpecSignal *)

\* The number of runtime calls named op among calls.
CountCalls(calls, op) == Cardinality({k \in 1..Len(calls) : calls[k].op = op})

\* The Signal call of t has returned and its id has a registered handle.
SignalDoneOnKnown(t) ==
    signal[t].pc = "done" /\ clntContainers[signal[t].id] # NoContainer

\* C5: Signal with SIGKILL on a known container issues exactly one
\* terminate-container call and no signal-process or shutdown call: none of
\* the latter at any point of the call, and one terminate call, for the
\* call's id, once it has returned.
C5_KillTerminatesContainerOnly ==
    \A t \in SigCallers :
        signal[t].sig = 9 =>
            /\ CountCalls(signal[t].calls, "TerminateProcessInComputeSystem") = 0
            /\ CountCalls(signal[t].calls, "ShutdownComputeSystem") = 0
            /\ CountCalls(signal[t].calls, "TerminateComputeSystem") <= 1
            /\ SignalDoneOnKnown(t) =>
                  /\ Len(signal[t].calls) = 1
                  /\ signal[t].calls[1].op = "TerminateComputeSystem"
                  /\ signal[t].calls[1].id = signal[t].id

\* C5 witness: a SIGKILL call on a known container has returned after a
\* terminate call that failed.
C5_Witness ==
    \E t \in SigCallers :
        /\ SignalDoneOnKnown(t)
        /\ signal[t].sig = 9
        /\ Len(signal[t].calls) = 1
        /\ ~signal[t].calls[1].ok

\* C6: Signal with any other signal on a known container issues exactly one
\* signal-process call for the tracked systemPid and then exactly one
\* shutdown call, whether the first succeeded or failed, and never a
\* terminate-container call.
C6_OtherSignalsProcessThenShutdown ==
    \A t \in SigCallers :
        (signal[t].pc # "idle" /\ signal[t].sig # 9) =>
            /\ CountCalls(signal[t].calls, "TerminateComputeSystem") = 0
            /\ Len(signal[t].calls) <= 2
            /\ SignalDoneOnKnown(t) =>
                  /\ Len(signal[t].calls) = 2
                  /\ signal[t].calls[1].op = "TerminateProcessInComputeSystem"
                  /\ signal[t].calls[1].id = signal[t].id
                  /\ signal[t].calls[1].pid = clntContainers[signal[t].id]
                  /\ signal[t].calls[2].op = "ShutdownComputeSystem"
                  /\ signal[t].calls[2].id = signal[t].id

\* C6 witness: a SIGTERM call has returned after a failed signal-process
\* call and the shutdown call that followed it.
C6_Witness ==
    \E t \in SigCallers :
        /\ SignalDoneOnKnown(t)
        /\ signal[t].sig = 15
        /\ Len(signal[t].calls) = 2
        /\ ~signal[t].calls[1].ok

\* C7: Signal returns an error, having made no runtime call, exactly when
\* the id has no registered handle; for a registered handle it returns nil
\* for every signal, whatever runtime calls failed.
C7_ErrorIffUnknown ==
    \A t \in SigCallers :
        signal[t].pc = "done" =>
            IF clntContainers[signal[t].id] = NoContainer
              THEN signal[t].ret # Nil /\ signal[t].calls = << >>
              ELSE signal[t].ret = Nil /\ signal[t].calls # << >>

\* C7 witness: one call has returned the error for an unknown id, another
\* has returned nil for a known id although every runtime call failed.
C7_Witness ==
    \E t, u \in SigCallers :
        /\ signal[t].pc = "done"
        /\ clntContainers[signal[t].id] = NoContainer
        /\ signal[t].ret # Nil
        /\ SignalDoneOnKnown(u)
        /\ signal[u].ret = Nil
        /\ \A k \in 1..Len(signal[u].calls) : ~signal[u].calls[k].ok

-----------------------------------------------------------------------------
(* Properties of Daemon.StateChanged, checked under SpecMonitor *)

\* The StateChanged call of h has returned.
Returned(h) == handler[h].pc = "done"

\* h takes a step of its call in this transition.
Steps(h) == handler'[h] # handler[h]

\* C8: StateChanged for an id absent from the registry returns the "no such
\* container" error for every event variant; the call changes no container
\* or exec state, emits no event and persists nothing.
C8_UnknownContainerRejected ==
    /\ [](\A h \in Handlers :
            (Returned(h) /\ handler[h].id \notin containers) =>
                /\ handler[h].ret = OtherError("no such container")
                /\ handler[h].trace = << >>)
    /\ [][\A h \in Handlers :
            (Steps(h) /\ handler'[h].id \notin containers) =>
                UNCHANGED << ctr, disk, execs, ctrLock >>]_vars

\* C8 witness: an Exit event for the unregistered id has been answered.
C8_Witness ==
    \E h \in Handlers :
        /\ Returned(h)
        /\ handler[h].id \notin containers
        /\ handler[h].e.State = "StateExit"
        /\ handler[h].ret # Nil

\* C9: an OOM event for a registered container returns an error and emits
\* no event on Windows, and emits "oom" and returns nil on any other
\* platform; on both the container's state is unchanged and nothing is
\* persisted.
C9_OOMByPlatform ==
    /\ [](\A h \in Handlers :
            (Returned(h) /\ handler[h].id \in containers
                         /\ handler[h].e.State = "StateOOM") =>
                IF GOOS = "windows"
                  THEN handler[h].ret # Nil /\ handler[h].trace = << >>
                  ELSE /\ handler[h].ret = Nil
                       /\ handler[h].trace = << [op |-> "oom", code |-> NoCode] >>)
    /\ [][\A h \in Handlers :
            (Steps(h) /\ handler[h].pc # "done" /\ handler[h].pc # "idle"
                      /\ handler[h].e.State = "StateOOM") =>
                UNCHANGED << ctr, disk, execs, ctrLock >>]_vars

\* C9 witness: an OOM event for a registered container has been refused on
\* Windows.
C9_Witness ==
    \E h \in Handlers :
        /\ Returned(h)
        /\ handler[h].id \in containers
        /\ handler[h].e.State = "StateOOM"
        /\ GOOS = "windows"
        /\ handler[h].ret # Nil

\* The operations of a trace, in order.
Ops(trace) == [k \in 1..Len(trace) |-> trace[k].op]

\* C10: a handled Exit event has gone through reset, mark stopped, "die"
\* with the event's exit code, cleanup and persist, in this order, persist
\* last; StateChanged returns nil when the persist succeeded and its error
\* when it failed; what a successful persist wrote is the stopped, cleaned
\* state with the exit code.
C10_ExitOrder ==
    \A h \in Handlers :
        (Returned(h) /\ handler[h].id \in containers
                     /\ handler[h].e.State = "StateExit") =>
            LET tr == handler[h].trace
                id == handler[h].id
            IN /\ Len(tr) = 7
               /\ \/ Ops(tr) = << "Lock", "Wait", "Reset", "SetStopped", "die",
                                  "Cleanup", "ToDisk" >>
                  \/ Ops(tr) = << "Lock", "Wait", "Reset", "SetStopped", "die",
                                  "Cleanup", "ToDisk failed" >>
               /\ tr[5].code = handler[h].e.ExitCode
               /\ (handler[h].ret = Nil) <=> (tr[7].op = "ToDisk")
               /\ (handler[h].ret # Nil) =>
                     handler[h].ret = OtherError("ToDisk failed")
               /\ (handler[h].ret = Nil) =>
                     /\ ~disk[id].Running
                     /\ disk[id].ExitCode = handler[h].e.ExitCode
                     /\ ~disk[id].LogDriver
                     /\ ~disk[id].Resources

\* C10 witness: an Exit event with exit code 3 has been handled and its
\* persist failed.
C10_Witness ==
    \E h \in Handlers :
        /\ Returned(h)
        /\ handler[h].id \in containers
        /\ handler[h].e.State = "StateExit"
        /\ handler[h].e.ExitCode = 3
        /\ handler[h].ret # Nil

\* h's call handles an event of the given state for a registered container.
Handles(h, state) ==
    /\ handler[h].pc \notin {"idle", "get"}
    /\ handler[h].id \in containers
    /\ handler[h].e.State = state

\* The positions of an operation in a trace.
Positions(trace, op) == {k \in 1..Len(trace) : trace[k].op = op}

\* C11: an Exit call marks the container stopped only after c.Wait() has
\* seen the stream-copy counter at zero: from the step that marks it stopped
\* on, no copy task counted before the Exit event is running, and the wait
\* comes before the mark in the call's own order.
C11_ExitWaitsForCopies ==
    \A h \in Handlers :
        (Handles(h, "StateExit")
           /\ Positions(handler[h].trace, "SetStopped") # {}) =>
            /\ ctr[handler[h].id].copies = 0
            /\ \E w \in Positions(handler[h].trace, "Wait") :
                 \A m \in Positions(handler[h].trace, "SetStopped") : w < m

\* C11 witness: an Exit call holds the lock and waits while a copy task
\* counted before the event is still running.
C11_Witness ==
    \E h \in Handlers :
        /\ Handles(h, "StateExit")
        /\ handler[h].pc = "exitWait"
        /\ ctrLock[handler[h].id] = h
        /\ ctr[handler[h].id].copies > 0

\* C12 as stated: a handled Restart event has gone through the sequence of
\* Exit (lock, wait for the stream copies, reset, set the state, "die",
\* cleanup, persist) with the counter increment added.
C12_RestartSameAsExit ==
    \A h \in Handlers :
        (Returned(h) /\ Handles(h, "StateRestart")) =>
            \/ Ops(handler[h].trace) =
                 << "Lock", "Wait", "Reset", "RestartCount++", "SetRestarting",
                    "die", "Cleanup", "ToDisk" >>
            \/ Ops(handler[h].trace) =
                 << "Lock", "Wait", "Reset", "RestartCount++", "SetRestarting",
                    "die", "Cleanup", "ToDisk failed" >>

\* C12 amended: a handled Restart event has, under the container's lock,
\* reset the transient fields, incremented the restart counter, marked the
\* container restarting, emitted "die" with the event's exit code and
\* persisted, in this order; it has neither waited for the stream copies nor
\* run the cleanup, and no step of it releases the runtime-side resources.
C12_RestartSequence ==
    /\ [](\A h \in Handlers :
            (Returned(h) /\ Handles(h, "StateRestart")) =>
                LET tr == handler[h].trace
                IN /\ \/ Ops(tr) = << "Lock", "Reset", "RestartCount++",
                                      "SetRestarting", "die", "ToDisk" >>
                      \/ Ops(tr) = << "Lock", "Reset", "RestartCount++",
                                      "SetRestarting", "die", "ToDisk failed" >>
                   /\ tr[5].code = handler[h].e.ExitCode
                   /\ (handler[h].ret = Nil) <=> (tr[6].op = "ToDisk")
                   /\ (handler[h].ret = Nil) =>
                         /\ disk[handler[h].id].Restarting
                         /\ disk[handler[h].id].ExitCode = handler[h].e.ExitCode
                         /\ ~disk[handler[h].id].LogDriver)
    /\ [][\A h \in Handlers :
            (Steps(h) /\ handler[h].pc \in {"restartReset", "restartCount",
                                              "setRestarting", "restartLogDie",
                                              "restartToDisk"}) =>
                /\ ctrLock[handler[h].id] = h
                /\ ctr'[handler[h].id].Resources = ctr[handler[h].id].Resources]_vars

\* C12 witness: a Restart event has been handled and persisted while a
\* stream-copy task of the container is still running and its runtime-side
\* resources are still held.
C12_Witness ==
    \E h \in Handlers :
        /\ Returned(h)
        /\ Handles(h, "StateRestart")
        /\ handler[h].ret = Nil
        /\ ctr[handler[h].id].copies > 0
        /\ ctr[handler[h].id].Resources

\* The Restart events handled to the end so far, when every delivered event
\* is a Restart event of a registered container.
Completed ==
    nEvents - Cardinality({h \in Handlers : handler[h].pc \notin {"idle", "done"}})

\* C13: of the Restart events of one container, delivered by concurrent
\* tasks from a count of zero, the k-th to be handled persists the count k
\* when its persist succeeds; in each call the increment comes before the
\* mark as restarting, and the mark before the persist.
C13_RestartCountExact ==
    /\ [][\A h \in Handlers :
            (/\ handler[h].pc = "restartToDisk"
             /\ handler'[h].pc = "done"
             /\ handler'[h].ret = Nil) =>
                disk'[handler[h].id].RestartCount = Completed']_vars
    /\ [](\A h \in Handlers :
            (Returned(h) /\ Handles(h, "StateRestart")) =>
                \E i, m, p \in 1..Len(handler[h].trace) :
                    /\ i < m /\ m < p
                    /\ handler[h].trace[i].op = "RestartCount++"
                    /\ handler[h].trace[m].op = "SetRestarting"
                    /\ handler[h].trace[p].op \in {"ToDisk", "ToDisk failed"})

\* C13 witness: two tasks have each handled a Restart event of the same
\* container and the persisted count is 2.
C13_Witness ==
    \E h, g \in Handlers :
        /\ h # g
        /\ Returned(h) /\ Handles(h, "StateRestart")
        /\ Returned(g) /\ Handles(g, "StateRestart")
        /\ handler[h].id = handler[g].id
        /\ handler[g].ret = Nil
        /\ disk[handler[h].id].RestartCount = 2

\* h is between its c.Lock() and its return in a branch that locks.
InLockedSection(h) ==
    handler[h].pc \in
        { "exitWait", "exitReset", "exitSetStopped", "exitLogDie", "exitCleanup",
          "exitToDisk", "restartReset", "restartCount", "setRestarting",
          "restartLogDie", "restartToDisk", "execGet", "execWait",
          "execCloseStreams", "execDelete" }

\* C14: of the Exit, Restart and ExitProcess calls delivered concurrently
\* for one container, at most one is between its lock acquisition and its
\* return, and that one holds the container's lock.
C14_LockedSectionsExclusive ==
    \A h, g \in Handlers :
        (InLockedSection(h) /\ InLockedSection(g)
           /\ handler[h].id = handler[g].id) =>
            /\ h = g
            /\ ctrLock[handler[h].id] = h

\* C14 witness: one call is inside its locked section while another call
\* for the same container stands at its c.Lock().
C14_Witness ==
    \E h, g \in Handlers :
        /\ h # g
        /\ InLockedSection(h)
        /\ handler[g].pc \in {"exitLock", "restartLock", "execLock"}
        /\ handler[h].id = handler[g].id

\* The fields of a container handle that its lock owns.
Owned(c) ==
    [ Running      |-> c.Running,
      Restarting   |-> c.Restarting,
      Pid          |-> c.Pid,
      Paused       |-> c.Paused,
      RestartCount |-> c.RestartCount,
      ExecCommands |-> c.ExecCommands ]

\* C15 as stated: every step that changes the running/pid state, the paused
\* flag, the restart count or the exec table of a container handle is a step
\* of the call that holds the handle's lock.
C15_MutationsUnderLock ==
    [][\A id \in ContainerIds :
          (Owned(ctr'[id]) # Owned(ctr[id])) =>
              \E h \in Handlers : ctrLock[id] = h /\ Steps(h)]_vars

\* h's ExitProcess event names a session absent from the container's table.
Stale(h) ==
    /\ Handles(h, "StateExitProcess")
    /\ handler[h].e.ProcessID \notin ctr[handler[h].id].ExecCommands

\* C16: an ExitProcess call for a session absent from the exec table changes
\* no container state, no exec-session state and nothing on disk, returns
\* nil and leaves the lock free; so a second ExitProcess event for a session
\* changes nothing the first has left.
C16_StaleExitProcessNoOp ==
    /\ [][\A h \in Handlers :
            (Steps(h) /\ Stale(h) /\ handler[h].pc \in {"execLock", "execGet"}) =>
                /\ UNCHANGED << ctr, execs, disk, execCommands >>
                /\ (handler[h].pc = "execGet") =>
                      /\ handler'[h].pc = "done"
                      /\ handler'[h].ret = Nil
                      /\ ctrLock'[handler[h].id] = NoHolder]_vars
    /\ [](\A h \in Handlers :
            (Returned(h) /\ Handles(h, "StateExitProcess")
                         /\ Positions(handler[h].trace, "Delete") = {}) =>
                /\ handler[h].ret = Nil
                /\ Ops(handler[h].trace) = << "Lock", "Warn" >>
                /\ ctrLock[handler[h].id] = NoHolder)

\* C16 witness: a second ExitProcess event for the launched session, with
\* another exit code than the first, has been answered and the session
\* keeps the exit code of the first.
C16_Witness ==
    \E h \in Handlers :
        /\ Returned(h)
        /\ Handles(h, "StateExitProcess")
        /\ Positions(handler[h].trace, "Warn") # {}
        /\ handler[h].e.ProcessID = "e1"
        /\ handler[h].e.ExitCode = 3
        /\ execs["e1"].ExitCode = 0
        /\ handler[h].ret = Nil

\* C17: an ExitProcess call for a session in the exec table records the
\* exit code and clears the running flag, waits for the session's copy
\* counter to be zero, closes the streams and then removes the session from
\* the container's table; the session stays in the table until the streams
\* are closed; a failure to close them is not returned and the session is
\* removed all the same; the daemon's own exec store is left as it is.
C17_ExitProcessOrder ==
    /\ [][\A h \in Handlers :
            (Steps(h) /\ handler[h].pc = "execGet" /\ ~Stale(h)) =>
                /\ handler'[h].pc = "execWait"
                /\ execs'[handler[h].e.ProcessID].ExitCode = handler[h].e.ExitCode
                /\ ~execs'[handler[h].e.ProcessID].Running]_vars
    /\ [][\A h \in Handlers :
            (Steps(h) /\ Handles(h, "StateExitProcess")) =>
                UNCHANGED execCommands]_vars
    /\ [](\A h \in Handlers :
            /\ handler[h].pc \in {"execWait", "execCloseStreams", "execDelete"} =>
                  handler[h].e.ProcessID \in ctr[handler[h].id].ExecCommands
            /\ handler[h].pc = "execDelete" =>
                  /\ execs[handler[h].e.ProcessID].closed
                  /\ execs[handler[h].e.ProcessID].copies = 0
            /\ (Returned(h) /\ Handles(h, "StateExitProcess")
                  /\ Positions(handler[h].trace, "ExitCode") # {}) =>
                  LET q == handler[h].e.ProcessID
                  IN /\ \/ Ops(handler[h].trace) =
                             << "Lock", "ExitCode", "Wait", "CloseStreams", "Delete" >>
                        \/ Ops(handler[h].trace) =
                             << "Lock", "ExitCode", "Wait", "CloseStreams failed",
                                "Delete" >>
                     /\ handler[h].ret = Nil
                     /\ q \notin ctr[handler[h].id].ExecCommands
                     /\ q \in execCommands
                     /\ execs[q].ExitCode = handler[h].e.ExitCode
                     /\ ~execs[q].Running
                     /\ execs[q].closed
                     /\ execs[q].copies = 0)

\* C17 witness: an ExitProcess event for the launched session has been
\* handled, closing its streams failed, and the call returned nil with the
\* session removed.
C17_Witness ==
    \E h \in Handlers :
        /\ Returned(h)
        /\ Handles(h, "StateExitProcess")
        /\ Positions(handler[h].trace, "CloseStreams failed") # {}
        /\ handler[h].ret = Nil
        /\ handler[h].e.ProcessID \notin ctr[handler[h].id].ExecCommands

\* h's call handles a Start or a Restore event of a registered container.
HandlesStart(h) == Handles(h, "StateStart") \/ Handles(h, "StateRestore")

\* C18 as stated: a Start or Restore call whose persist failed returns the
\* persist error and does not leave the handle marked running; after any
\* such call has returned the handle is running only if the persist
\* succeeded.
C18_PersistFailureRollsBack ==
    \A h \in Handlers :
        (Returned(h) /\ HandlesStart(h)) =>
            /\ (Positions(handler[h].trace, "ToDisk failed") # {}) =>
                  handler[h].ret = OtherError("ToDisk failed")
            /\ ctr[handler[h].id].Running => handler[h].ret = Nil

\* C19: a Start or Restore call that returns nil has recorded the event's
\* pid and marked the container running, as a fresh start for Start and as
\* a non-fresh one for Restore, and has persisted that state as the last
\* step before it returned.
C19_StartRecordsAndPersists ==
    \A h \in Handlers :
        (Returned(h) /\ HandlesStart(h) /\ handler[h].ret = Nil) =>
            LET id == handler[h].id
            IN /\ Ops(handler[h].trace) = << "SetRunning", "ToDisk" >>
               /\ ctr[id].Running
               /\ ctr[id].Pid = handler[h].e.Pid
               /\ ctr[id].Initial = (handler[h].e.State = "StateStart")
               /\ disk[id].Running
               /\ disk[id].Pid = handler[h].e.Pid
               /\ disk[id].Initial = (handler[h].e.State = "StateStart")

\* C19 witness: a Restore event with pid 8 has been handled after another
\* event and its persist succeeded.
C19_Witness ==
    \E h \in Handlers :
        /\ Returned(h)
        /\ Handles(h, "StateRestore")
        /\ handler[h].e.Pid = 8
        /\ handler[h].ret = Nil
        /\ nEvents = 2
        /\ disk[handler[h].id].Pid = 8

\* C20: a Pause call leaves the paused flag true and has emitted "pause"; a
\* Resume call leaves it false and has emitted "unpause"; both return nil,
\* persist nothing and change neither the running state, the pid, the
\* restart count nor the exec table.
C20_PauseResumeFlipOnly ==
    /\ [](\A h \in Handlers :
            /\ (Returned(h) /\ Handles(h, "StatePause")) =>
                  /\ handler[h].ret = Nil
                  /\ handler[h].trace = << [op |-> "pause", code |-> NoCode] >>
                  /\ ctr[handler[h].id].Paused
            /\ (Returned(h) /\ Handles(h, "StateResume")) =>
                  /\ handler[h].ret = Nil
                  /\ handler[h].trace = << [op |-> "unpause", code |-> NoCode] >>
                  /\ ~ctr[handler[h].id].Paused)
    /\ [][\A h \in Handlers :
            (Steps(h) /\ handler[h].pc \in {"pause", "resume"}) =>
                /\ UNCHANGED << disk, execs, execCommands >>
                /\ [Owned(ctr'[handler[h].id]) EXCEPT !.Paused = FALSE]
                     = [Owned(ctr[handler[h].id]) EXCEPT !.Paused = FALSE]]_vars

\* C20 witness: a Pause event has been handled for a running container;
\* the handle is paused and the state on disk is not.
C20_Witness ==
    \E h \in Handlers :
        /\ Returned(h)
        /\ Handles(h, "StatePause")
        /\ ctr[handler[h].id].Running
        /\ ctr[handler[h].id].Paused
        /\ ~disk[handler[h].id].Paused

-----------------------------------------------------------------------------
(* Properties of Daemon.AttachStreams, checked under SpecAttach *)

Calls == 1..Len(attach)

\* Call k has resolved its stream configuration and is past the stdin wiring.
PastStdin(k) == attach[k].pc \in {"Stdout", "StdoutGo", "Stderr", "StderrGo",
                                  "return"}
                \/ (attach[k].pc = "done" /\ attach[k].ret = Nil)

\* Call k has returned.
AttachReturned(k) == attach[k].pc = "done"

\* C21 as stated: a call that wired the streams of a container or of an exec
\* session with no stdin source and no tty has closed a supplied stdin pipe
\* once before it returned; with a tty and no source it has not closed it.
C21_StdinClosedWithoutSource ==
    \A k \in Calls :
        (AttachReturned(k) /\ attach[k].ret = Nil
           /\ ~config[attach[k].s].Stdin /\ attach[k].iop.Stdin) =>
            attach[k].stdinClosed = IF config[attach[k].s].Tty THEN 0 ELSE 1

\* C22: with a stdin source and a stdin pipe the call starts one goroutine
\* for stdin and closes nothing itself; the pipe is closed once, by the
\* goroutine, after its copy has returned, and not before; without a source
\* or without a pipe no stdin goroutine exists.
C22_StdinTaskClosesOnce ==
    \A k \in Calls :
        PastStdin(k) =>
            IF config[attach[k].s].Stdin /\ attach[k].iop.Stdin
              THEN /\ attach[k].tasks.Stdin \in {"copying", "copied", "closed"}
                   /\ attach[k].stdinClosed =
                        IF attach[k].tasks.Stdin = "closed" THEN 1 ELSE 0
                   /\ Cardinality(Positions(attach[k].trace, "go Stdin")) = 1
                   /\ Positions(attach[k].trace, "Close Stdin") = {}
              ELSE attach[k].tasks.Stdin = "none"

\* C22 witness: the call has returned nil while its stdin goroutine is
\* still copying and the pipe is open.
C22_Witness ==
    \E k \in Calls :
        /\ AttachReturned(k)
        /\ attach[k].ret = Nil
        /\ attach[k].tasks.Stdin = "copying"
        /\ attach[k].stdinClosed = 0

\* The s.Add/s.Done counter of a container's or exec session's streams.
Counter(t) == IF t \in ContainerIds THEN ctr[t].copies ELSE execs[t].copies

\* The stdout/stderr tasks on the streams of t that are counted or copying.
Unfinished(t) ==
    {ks \in Calls \X CopyStreams :
        /\ attach[ks[1]].s = t
        /\ attach[ks[1]].tasks[ks[2]] \in {"counted", "copying"}}

\* C23: the counter of each stream configuration is the number of its
\* stdout/stderr tasks counted by s.Add(1) and not yet ended, never less
\* than zero; a call that returns nil has counted and then started one task
\* for each non-nil stdout/stderr pipe and none for a nil one; the end of a
\* copy, with or without an error, takes one off the counter, leaves the
\* other stream's task as it is and does not change what the call returns.
C23_CounterCountsTasks ==
    /\ [](\A t \in AttachIds :
            /\ Counter(t) >= 0
            /\ Counter(t) = Cardinality(Unfinished(t)))
    /\ [](\A k \in Calls, stream \in CopyStreams :
            (AttachReturned(k) /\ attach[k].ret = Nil) =>
                /\ attach[k].iop[stream] <=> attach[k].tasks[stream] # "none"
                /\ attach[k].iop[stream] =>
                     \E i, j \in 1..Len(attach[k].trace) :
                        /\ i < j
                        /\ attach[k].trace[i].op = "Add " \o stream
                        /\ attach[k].trace[j].op = "go " \o stream)
    /\ [][\A k \in Calls, stream \in CopyStreams :
            (/\ attach[k].tasks[stream] = "copying"
             /\ attach'[k].tasks[stream] \in {"done", "failed"}) =>
                /\ Counter(attach[k].s)' = Counter(attach[k].s) - 1
                /\ \A other \in CopyStreams \ {stream} :
                     attach'[k].tasks[other] = attach[k].tasks[other]
                /\ attach'[k].ret = attach[k].ret
                /\ attach'[k].pc = attach[k].pc]_vars

\* C23 witness: the call has returned nil, its stdout copy has failed and
\* its stderr copy is still running, counted once.
C23_Witness ==
    \E k \in Calls :
        /\ AttachReturned(k)
        /\ attach[k].ret = Nil
        /\ attach[k].tasks.Stdout = "failed"
        /\ attach[k].tasks.Stderr = "copying"
        /\ Counter(attach[k].s) = 1

\* The id of call k is neither a registered container nor an exec session
\* of the daemon's store.
Unresolved(k) ==
    attach[k].id \notin containers /\ attach[k].id \notin execCommands

\* C24: a call whose id resolves to no container and no exec session
\* returns the "no such exec/container" error; it starts no task, closes no
\* pipe, starts no logging and changes no counter.
C24_UnresolvedIdRejected ==
    /\ [](\A k \in Calls :
            (AttachReturned(k) /\ Unresolved(k)) =>
                /\ attach[k].ret = OtherError("no such exec/container")
                /\ attach[k].trace = << >>
                /\ attach[k].stdinClosed = 0
                /\ \A stream \in {"Stdin", "Stdout", "Stderr"} :
                     attach[k].tasks[stream] = "none")
    /\ [][\A k \in Calls :
            (attach'[k] # attach[k] /\ Unresolved(k)) =>
                UNCHANGED << ctr, execs >>]_vars

\* C24 witness: a call for an unknown id with all three pipes supplied has
\* returned.
C24_Witness ==
    \E k \in Calls :
        /\ AttachReturned(k)
        /\ Unresolved(k)
        /\ attach[k].iop = [Stdin |-> TRUE, Stdout |-> TRUE, Stderr |-> TRUE]
        /\ attach[k].ret # Nil

\* C25: in the container case the first thing the call does is to start the
\* logging, before a pipe is closed, a task counted or a goroutine started;
\* when that fails the call returns its error with nothing wired; in the
\* exec-session case the logging is never started.
C25_LoggingBeforeWiring ==
    \A k \in Calls :
        LET a == attach[k]
            wired == \/ a.stdinClosed > 0
                     \/ \E stream \in {"Stdin", "Stdout", "Stderr"} :
                          a.tasks[stream] # "none"
        IN /\ (a.c /\ a.trace # << >>) =>
                 a.trace[1].op \in {"StartLogging", "StartLogging failed"}
           /\ (a.c /\ wired) => a.trace[1].op = "StartLogging"
           /\ (a.c /\ a.trace # << >> /\ a.trace[1].op = "StartLogging failed") =>
                 /\ a.pc = "done"
                 /\ a.ret = OtherError("StartLogging failed")
                 /\ ~wired
           /\ ~a.c =>
                 /\ Positions(a.trace, "StartLogging") = {}
                 /\ Positions(a.trace, "StartLogging failed") = {}

\* C25 witness: a call for the registered container with all three pipes
\* supplied has returned the error of the logging.
C25_Witness ==
    \E k \in Calls :
        /\ AttachReturned(k)
        /\ attach[k].c
        /\ attach[k].iop = [Stdin |-> TRUE, Stdout |-> TRUE, Stderr |-> TRUE]
        /\ attach[k].ret = OtherError("StartLogging failed")

-----------------------------------------------------------------------------
(* Properties of the port-binding translation, checked under SpecPorts *)

\* The protocols the translation accepts, whatever their case, and the
\* name it gives each.
ProtocolOf(proto) ==
    CASE proto \in {<< "t", "c", "p" >>, << "T", "c", "p" >>} -> << "T", "C", "P" >>
      [] proto \in {<< "u", "d", "p" >>, << "U", "D", "P" >>} -> << "U", "D", "P" >>
      [] OTHER -> << >>

\* The number a port text stands for; NoCode when it is not a number.
PortNumber(text) ==
    CASE text = << "8", "0" >>                -> 80
      [] text = << "8", "0", "8", "0" >>      -> 8080
      [] text = << "6", "5", "5", "3", "6" >> -> 65536
      [] OTHER                                -> NoCode

\* The port text is numeric and within 0..65535.
PortInRange(text) == PortNumber(text) >= 0 /\ PortNumber(text) <= 65535

\* A container port whose bindings the translation must refuse.
Refused(i, v) ==
    \/ ProtocolOf(i.Proto) = << >>
    \/ Len(v) > 1
    \/ \E k \in 1..Len(v) :
          \/ v[k].HostIP # ""
          \/ ~PortInRange(v[k].HostPort)
          \/ ~PortInRange(i.Port)

\* C26: the translation returns an error exactly when some container port
\* has a protocol other than tcp or udp (in any case), more than one host
\* binding, or a binding with a host IP or with an internal or external
\* port that is not a number in 0..65535; otherwise it yields one runtime
\* binding for each container port with a host binding, with the protocol
\* in upper case, the container port as InternalPort and the host port as
\* ExternalPort, and none for a container port with an empty binding list.
C26_PortBindingTranslation ==
    nat.pc = "done" =>
        LET in    == nat.PortBindings
            bound == {i \in DOMAIN in : Len(in[i]) = 1}
        IN /\ (nat.ret # Nil) <=> (\E i \in DOMAIN in : Refused(i, in[i]))
           /\ (nat.ret = Nil) =>
                 /\ Len(nat.pbs) = Cardinality(bound)
                 /\ \A i \in bound :
                      \E k \in 1..Len(nat.pbs) :
                         nat.pbs[k] =
                            [ExternalPort |-> PortNumber(in[i][1].HostPort),
                             InternalPort |-> PortNumber(i.Port),
                             Protocol     |-> ProtocolOf(i.Proto)]

\* C26 witness: container port 80/tcp bound to host port 8080, together
\* with a port without bindings, has been translated to {TCP, 80, 8080} alone.
C26_Witness ==
    /\ nat.pc = "done"
    /\ nat.ret = Nil
    /\ Cardinality(DOMAIN nat.PortBindings) = 2
    /\ nat.pbs = << [ExternalPort |-> 8080, InternalPort |-> 80,
                     Protocol |-> << "T", "C", "P" >>] >>

-----------------------------------------------------------------------------
(* Properties of the unimplemented operations, checked under SpecUnsupported *)

\* C27: AddProcess, Resize, Pause, Resume, Stats, Restore,
\* GetPidsForContainer and UpdateResources return the not-implemented
\* error for every container id, known to the client or not; they make no
\* runtime call and change neither the client's handle table and locks nor
\* any container state.
C27_UnsupportedOperations ==
    /\ [](clientCall.op # "none" =>
            /\ clientCall.op \in {"AddProcess", "Resize", "Pause", "Resume", "Stats",
                                  "Restore", "GetPidsForContainer", "UpdateResources"}
            /\ clientCall.ret = OtherError("Not yet implemented on Windows")
            /\ clientCall.calls = << >>)
    /\ [][clientCall' # clientCall =>
            UNCHANGED << clntContainers, clntLocks, signal, create, containers,
                         ctr, ctrLock, disk, execs, execCommands >>]_vars

\* C27 witness: Pause has been called for a container the client holds and
\* has returned its error.
C27_Witness ==
    /\ clientCall.op = "Pause"
    /\ clntContainers[clientCall.id] # NoContainer
    /\ clientCall.ret # Nil

-----------------------------------------------------------------------------
(* Properties of the lock on return, checked under SpecMonitor *)

\* C28: once StateChanged has returned, whatever the path (success, a
\* failed write, a stale ExitProcess, the OOM error, an unknown container),
\* the handler holds no container's lock; a handler that is not running
\* holds none either.
C28_NoLockAfterReturn ==
    \A h \in Handlers :
        handler[h].pc \in {"idle", "done"} =>
            \A id \in ContainerIds : ctrLock[id] # h

\* C28 witness: an Exit handler took the lock, failed to persist, returned
\* that error, and the container's lock is free.
C28_Witness ==
    \E h \in Handlers :
        /\ Returned(h)
        /\ Handles(h, "StateExit")
        /\ Positions(handler[h].trace, "Lock") # {}
        /\ handler[h].ret = ErrToDisk
        /\ ctrLock[handler[h].id] = NoHolder

-----------------------------------------------------------------------------
(* Frame properties of the dispatcher, checked under SpecMonitor *)

\* The handler h takes a step of its switch branch for container id.
StepsFor(h, id, states) ==
    /\ Steps(h)
    /\ handler[h].id = id
    /\ \E state \in states : Handles(h, state)

\* C30: a container's restart count never decreases and changes, by
\* exactly one, only in a step of a handler of a Restart event for it;
\* its paused flag changes only in a step of a handler of a Pause or Resume
\* event for it.  Handling Exit, ExitProcess, Start, Restore or OOM changes
\* neither.
C30_RestartCountAndPausedFrame ==
    [][\A id \in ContainerIds :
         /\ ctr'[id].RestartCount >= ctr[id].RestartCount
         /\ ctr'[id].RestartCount # ctr[id].RestartCount =>
              /\ ctr'[id].RestartCount = ctr[id].RestartCount + 1
              /\ \E h \in Handlers : StepsFor(h, id, {"StateRestart"})
         /\ ctr'[id].Paused # ctr[id].Paused =>
              \E h \in Handlers : StepsFor(h, id, {"StatePause", "StateResume"})
         /\ (\E h \in Handlers :
               StepsFor(h, id, {"StateExit", "StateExitProcess", "StateStart",
                                "StateRestore", "StateOOM"})) =>
              /\ ctr'[id].RestartCount = ctr[id].RestartCount
              /\ ctr'[id].Paused = ctr[id].Paused]_vars

\* C30 witness: a paused container has had a Restart handled to the end;
\* its restart count is 1 and it is still paused.
C30_Witness ==
    \E h \in Handlers :
        /\ Returned(h)
        /\ Handles(h, "StateRestart")
        /\ Positions(handler[h].trace, "SetRestarting") # {}
        /\ ctr[handler[h].id].Paused
        /\ ctr[handler[h].id].RestartCount = 1

-----------------------------------------------------------------------------
(* Liveness of the copy tasks and the waiting handlers, checked under SpecDrain *)

\* The handler h waits in c.Wait() or execConfig.Wait().
Waiting(h) == handler[h].pc \in {"exitWait", "execWait"}

\* C29: with every copy task's io.Copy ending at some time, a stream
\* configuration's counter that is above zero comes back to zero, and a
\* handler blocked in the Wait of Exit or ExitProcess goes on, returns, and
\* leaves the container's lock free of it.
C29_CopiesDrainAndHandlerProceeds ==
    /\ \A t \in RegisteredIds \cup LaunchedExecs :
         (Counter(t) > 0) ~> (Counter(t) = 0)
    /\ \A h \in Dispatcher :
         (Waiting(h) /\ Counter(IF handler[h].pc = "exitWait"
                                   THEN handler[h].id ELSE handler[h].e.ProcessID) > 0)
           ~> (Returned(h) /\ ctrLock[handler[h].id] # h)

\* C29 witness: the Exit handler holds the lock and is blocked in c.Wait()
\* while a copy goroutine of the container, started by AttachStreams, is
\* still copying.
C29_Witness ==
    \E h \in Dispatcher, k \in 1..Len(attach), stream \in CopyStreams :
        /\ handler[h].pc = "exitWait"
        /\ ctrLock[handler[h].id] = h
        /\ attach[k].s = handler[h].id
        /\ attach[k].tasks[stream] = "copying"
        /\ Counter(handler[h].id) > 0

-----------------------------------------------------------------------------
(* Bounds of the creation retry, checked under SpecCreateFair *)

\* The running Create call got past the translation of the spec.
ReachedCreation ==
    /\ create.pc # "idle"
    /\ ~(create.pc = "done" /\ create.ret \in TranslateResults \ {Nil})

\* C31: a Create call that gets to the creation of the compute system
\* issues, on the retry-enabled platform, at least 1 and at most 5
\* CreateComputeSystem attempts, and none after the first that succeeds;
\* on the other platform it issues exactly 1; the retry loop, once entered,
\* is left.
C31_AttemptsBounded ==
    /\ [](ReachedCreation =>
            /\ Len(create.results) <= 5
            /\ ~IsTP4 => Len(create.results) <= 1
            /\ CreatePastLoop => Len(create.results) >= 1
            /\ \A k \in 1..Len(create.results) :
                 create.results[k] = Nil => k = Len(create.results))
    /\ (create.pc = "create") ~> CreatePastLoop

\* C31 witness: on the retry-enabled platform a Create call has left the
\* loop after two transient failures and a success at the third attempt.
C31_Witness ==
    /\ IsTP4
    /\ create.pc = "done"
    /\ Len(create.results) = 3
    /\ TransientFailure(create.results[1])
    /\ TransientFailure(create.results[2])
    /\ create.results[3] = Nil

-----------------------------------------------------------------------------
(* AttachStreams beside the Exit event, checked under SpecDrain *)

\* C32 as stated: while an AttachStreams call and the handling of the Exit
\* event of the same container are both in progress, the container has
\* not been marked stopped with a stdout/stderr task of that call counted
\* or still copying.
C32_StoppedOnlyAfterCopies ==
    \A h \in Dispatcher, k \in Calls :
        (/\ Handles(h, "StateExit")
         /\ ~Returned(h)
         /\ attach[k].pc # "done"
         /\ attach[k].c
         /\ attach[k].s = handler[h].id
         /\ Positions(handler[h].trace, "SetStopped") # {}) =>
            \A stream \in CopyStreams :
                attach[k].tasks[stream] \notin {"counted", "copying"}

-----------------------------------------------------------------------------
(* Failures of the translation in Create, checked under SpecCreate *)

\* The errors the translation of the port bindings returns.
PortErrors ==
    {TranslateOne(i, v).err : i \in NatPorts, v \in BindingLists} \ {Nil}

\* The errors Create can return before it calls the runtime.
TranslateErrors ==
    { OtherError("NameToGuid failed"), OtherError("json.Marshal failed") }
      \cup PortErrors

\* C33: a Create call that returns a translation error (a layer name that
\* has no GUID, a refused port binding, a failed marshalling) has issued no
\* CreateComputeSystem call, built no container handle, and called neither
\* start nor deleteContainer.
C33_TranslateFailureHasNoEffect ==
    /\ TranslateErrors \subseteq TranslateResults
    /\ (create.pc = "done" /\ create.ret \in TranslateErrors) =>
            /\ create.results = << >>
            /\ ~create.created
            /\ ~create.container
            /\ create.startCalls = 0
            /\ create.deleted = 0

\* C33 witness: a call whose port bindings name a host IP address has
\* returned that error, with no runtime call made.
C33_Witness ==
    /\ create.pc = "done"
    /\ create.ret = OtherError("host IP addresses")
    /\ create.ret \in PortErrors
    /\ create.results = << >>

-----------------------------------------------------------------------------
(* The lock of client.Signal, checked under SpecSignal *)

\* The Signal call of t is between c.lock(id) and its return.
InSignalSection(t) ==
    signal[t].pc \in {"getContainer", "kill", "shutdown", "return"}

\* C34: a Signal call holds the lock of its container id from before the
\* lookup of the handle to its return, the runtime calls included, and holds
\* none once it has returned, with nil or with the not-found error; two
\* calls for the same id are never both between lock and return, so their
\* runtime calls do not interleave; a call waiting for the lock waits only
\* for a call on the same id.
C34_SignalHoldsIdLock ==
    /\ \A t \in SigCallers :
         /\ InSignalSection(t) => clntLocks[signal[t].id] = t
         /\ signal[t].pc \in {"idle", "lock", "done"} =>
              \A id \in ContainerIds : clntLocks[id] # t
         /\ signal[t].calls # << >> /\ signal[t].pc # "done" =>
              clntLocks[signal[t].id] = t
         /\ (signal[t].pc = "lock" /\ clntLocks[signal[t].id] # NoHolder) =>
              \E u \in SigCallers \ {t} :
                  InSignalSection(u) /\ signal[u].id = signal[t].id
    /\ \A t, u \in SigCallers :
         (t # u /\ InSignalSection(t) /\ InSignalSection(u)) =>
             signal[t].id # signal[u].id

\* C34 witness: one call has issued its first runtime call and is about to
\* issue the shutdown while a second call for the same id waits for the
\* lock; the first holds it.
C34_Witness ==
    \E t, u \in SigCallers :
        /\ t # u
        /\ signal[t].pc = "shutdown"
        /\ Len(signal[t].calls) = 1
        /\ signal[u].pc = "lock"
        /\ signal[u].id = signal[t].id
        /\ clntLocks[signal[t].id] = t

=============================================================================
